---- MODULE Spec2Model ----
(***************************************************************************)
(* Model of the folder-similarity engine, storage index and sequential     *)
(* task executor of dedup-tool (package core and the ui main model).       *)
(*                                                                         *)
(* Strings that the code compares, splits or joins (paths, pair keys,      *)
(* fingerprints) are sequences of one-character strings, so that           *)
(* filepath.Dir/Base/Join, strings.Split and Go's byte-wise string order   *)
(* are computed and not assumed.                                           *)
(***************************************************************************)
EXTENDS Integers, Sequences, FiniteSets, TLC

VARIABLES
    storage,        \* MemoryStorage: folders, matchedFiles, hashMap
    scanned,        \* Scanner.Scan: paths already visited by the walk
    sim,            \* SimilarityChecker: similarityFolderPairs, similarityFolderMap
    fs,             \* the directory tree below the os.Root: files, dirs
    exec,           \* Executor and its goroutine
    ui,             \* MainModel: focus, pendingActions, listener, log
    mainPc,         \* main(): "scan", "calculate", "ui"
    hist            \* observation log of the run (ghost)

vars == <<storage, scanned, sim, fs, exec, ui, mainPc, hist>>

----------------------------------------------------------------------------
(* Bounds *)

MaxFiles == 3        \* files held by Storage at once (SpecStorage)
MaxScan == 4         \* files of the scanned tree (SpecSim)
MaxExecutors == 1    \* runs the user starts; afterwards the only key is "esc" (SpecExec)
WideFiles == 10      \* files of the left folder of the wide tree (SpecExec)
MaxPendingEsc == 1   \* "esc" keys pressed before the first is handled (SpecExec)
MaxRuns == 2         \* runs the user starts one after the other (SpecTwoRuns)

----------------------------------------------------------------------------
(* Strings *)

Dot == <<".">>
Slash == <<"/">>
Colon == <<":">>
Empty == <<>>

SetMin(S) == CHOOSE x \in S : \A y \in S : x <= y
SetMax(S) == CHOOSE x \in S : \A y \in S : x >= y

\* byte value of a character
CharCode(c) ==
    CASE c = "." -> 46
      [] c = "/" -> 47
      [] c = "1" -> 49
      [] c = "2" -> 50
      [] c = "3" -> 51
      [] c = "4" -> 52
      [] c = "5" -> 53
      [] c = "6" -> 54
      [] c = "7" -> 55
      [] c = "8" -> 56
      [] c = "9" -> 57
      [] c = ":" -> 58
      [] c = "a" -> 97
      [] c = "b" -> 98
      [] c = "c" -> 99
      [] c = "d" -> 100
      [] c = "e" -> 101
      [] c = "p" -> 112
      [] c = "q" -> 113
      [] c = "x" -> 120
      [] c = "y" -> 121
      [] c = "z" -> 122

\* Go's s < t on strings
StrLess(s, t) ==
    LET n == IF Len(s) < Len(t) THEN Len(s) ELSE Len(t)
        diff == {i \in 1..n : s[i] # t[i]}
    IN  IF diff = {} THEN Len(s) < Len(t)
        ELSE CharCode(s[SetMin(diff)]) < CharCode(t[SetMin(diff)])

SlashAt(p) == {i \in 1..Len(p) : p[i] = "/"}

\* filepath.Dir on a clean relative path
Dir(p) ==
    IF SlashAt(p) = {} THEN Dot
    ELSE SubSeq(p, 1, SetMax(SlashAt(p)) - 1)

\* filepath.Base on a clean relative path
Base(p) ==
    IF p = Empty THEN Dot
    ELSE IF SlashAt(p) = {} THEN p
    ELSE SubSeq(p, SetMax(SlashAt(p)) + 1, Len(p))

\* filepath.Join(a, b): empty elements are ignored, the result is cleaned
Join(a, b) ==
    IF b = Empty \/ b = Dot THEN a
    ELSE IF a = Empty \/ a = Dot THEN b
    ELSE a \o Slash \o b

\* strings.Split(s, sep) for a one-character separator
RECURSIVE Split(_, _)
Split(s, sep) ==
    LET at == {i \in 1..Len(s) : s[i] = sep}
    IN  IF at = {} THEN <<s>>
        ELSE <<SubSeq(s, 1, SetMin(at) - 1)>>
                 \o Split(SubSeq(s, SetMin(at) + 1, Len(s)), sep)

RECURSIVE SplitPath(_)
SplitPath(path) ==
    IF path = Dot \/ path = Slash THEN <<Base(path)>>
    ELSE LET folder == Base(Dir(path))
             rest == SplitPath(Dir(path))
         IN  \* the components gathered above path, then path's own base
             (IF folder # Dot /\ folder # Slash THEN rest ELSE Empty)
                 \o <<Base(path)>>

\* x is y or a folder above y
IsAncestorOrSelf(x, y) ==
    \/ x = y
    \/ x = Dot
    \/ /\ Len(x) < Len(y)
       /\ SubSeq(y, 1, Len(x)) = x
       /\ y[Len(x) + 1] = "/"

----------------------------------------------------------------------------
(* Entities: File, Folder, MatchedFileGroup *)

NilPath == Empty     \* a nil *Folder

File(path, hash, modTime) ==
    [Name |-> Base(path), Path |-> path, Hash |-> hash, ModTime |-> modTime]

NewFolder(name, path, parent) ==
    [Name |-> name, Path |-> path, Parent |-> parent,
     Folders |-> << >>, files |-> << >>,
     fileCount |-> 0, fileCountCache |-> 0]

\* sync.Map Store / Delete on a function with a dynamic domain
MapStore(m, k, v) == [x \in (DOMAIN m) \cup {k} |-> IF x = k THEN v ELSE m[x]]
MapDelete(m, k) == [x \in (DOMAIN m) \ {k} |-> m[x]]
MapValues(m) == {m[k] : k \in DOMAIN m}

\* Folder.invalidateCache: this folder and its parents
RECURSIVE invalidateCache(_, _)
invalidateCache(fo, path) ==
    LET fo1 == [fo EXCEPT ![path].fileCountCache = 0]
    IN  IF fo[path].Parent # NilPath
        THEN invalidateCache(fo1, fo[path].Parent)
        ELSE fo1

\* Folder.AddFile
FolderAddFile(fo, path, file) ==
    invalidateCache(
        [fo EXCEPT ![path].files = MapStore(@, file.Name, file),
                   ![path].fileCount = @ + 1],
        path)

FolderRemoveFileKeepCount(fo, path, file) ==
    invalidateCache([fo EXCEPT ![path].files = MapDelete(@, file.Name)], path)

\* Folder.RemoveFile
FolderRemoveFile(fo, path, file) ==
    invalidateCache(
        [fo EXCEPT ![path].files = MapDelete(@, file.Name),
                   ![path].fileCount = @ - 1],
        path)

\* Folder.GetFileCount: the value returned
RECURSIVE GetFileCount(_, _)
GetFileCount(fo, path) ==
    IF fo[path].fileCountCache # 0 THEN fo[path].fileCountCache
    ELSE LET kids == MapValues(fo[path].Folders)
             RECURSIVE Sum(_)
             Sum(S) == IF S = {} THEN 0
                       ELSE LET k == CHOOSE k \in S : TRUE
                            IN  GetFileCount(fo, k) + Sum(S \ {k})
         IN  fo[path].fileCount + Sum(kids)

\* Folder.GetFileCount: the folders whose cache the call stores
RECURSIVE CountVisited(_, _)
CountVisited(fo, path) ==
    IF fo[path].fileCountCache # 0 THEN {}
    ELSE {path} \cup UNION {CountVisited(fo, k) : k \in MapValues(fo[path].Folders)}

\* Folder.GetFileCount: the folder table after the call
StoreFileCount(fo, path) ==
    [q \in DOMAIN fo |->
        IF q \in CountVisited(fo, path)
        THEN [fo[q] EXCEPT !.fileCountCache = GetFileCount(fo, q)]
        ELSE fo[q]]

\* Folder.AddFile / Folder.RemoveFile: file.Parent = f, file.Parent = nil (a
\* file that is not in the map has a nil Parent)
FileSetParent(parent, file, path) ==
    IF path = NilPath THEN MapDelete(parent, file) ELSE MapStore(parent, file, path)

\* Folder.GetFiles (the order of a sync.Map Range is not fixed: a set)
GetFiles(fo, path) == MapValues(fo[path].files)

----------------------------------------------------------------------------
(* MemoryStorage *)

\* NewMemoryStorage; parent holds the Parent field of the File objects the
\* storage was given
NewMemoryStorage ==
    [folders |-> << >>, matchedFiles |-> << >>, hashMap |-> << >>, parent |-> << >>]

GetFolderUnregistered(fo, path) ==
    IF path \in DOMAIN fo THEN fo
    ELSE MapStore(fo, path, NewFolder(Base(path), path, NilPath))

\* MemoryStorage.GetFolder: the folder table after the lazy creation
RECURSIVE GetFolder(_, _)
GetFolder(fo, path) ==
    IF path \in DOMAIN fo THEN fo
    ELSE IF path = Dot \/ path = Slash
    THEN MapStore(fo, path, NewFolder(path, path, NilPath))
    ELSE LET parentPath == Dir(path)
             fo1 == GetFolder(fo, parentPath)
             fo2 == [fo1 EXCEPT ![parentPath].Folders = MapStore(@, Base(path), path)]
         IN  MapStore(fo2, path, NewFolder(Base(path), path, parentPath))

\* slices.DeleteFunc(s, func(f) f == file)
RECURSIVE SeqWithout(_, _)
SeqWithout(s, x) ==
    IF s = << >> THEN << >>
    ELSE IF Head(s) = x THEN SeqWithout(Tail(s), x)
    ELSE <<Head(s)>> \o SeqWithout(Tail(s), x)

\* MemoryStorage.AddFile
StorageAddFile(st, file) ==
    LET fo == FolderAddFile(GetFolder(st.folders, Dir(file.Path)), Dir(file.Path), file)
        ps == FileSetParent(st.parent, file, Dir(file.Path))
    IN  IF file.Hash \notin DOMAIN st.hashMap
        THEN [st EXCEPT !.folders = fo, !.parent = ps, !.hashMap = MapStore(@, file.Hash, file)]
        ELSE IF file.Hash \in DOMAIN st.matchedFiles
        THEN [st EXCEPT !.folders = fo, !.parent = ps,
                        !.matchedFiles[file.Hash].Files = Append(@, file)]
        ELSE [st EXCEPT !.folders = fo, !.parent = ps,
                        !.matchedFiles = MapStore(@, file.Hash,
                            [Files |-> <<file, st.hashMap[file.Hash]>>,
                             Hash |-> file.Hash])]

\* MemoryStorage.RemoveFile: [st |-> storage after the call, err |-> error returned]
StorageRemoveFileKeepGroup(st, file) ==
    LET fo == FolderRemoveFile(GetFolder(st.folders, Dir(file.Path)), Dir(file.Path), file)
        st1 == [st EXCEPT !.folders = fo,
                          !.parent = FileSetParent(@, file, NilPath)]
    IN  IF file.Hash \in DOMAIN st.matchedFiles
        THEN LET rest == SeqWithout(st.matchedFiles[file.Hash].Files, file)
             IN  IF Len(rest) = 0
                 THEN [st |-> [st1 EXCEPT !.matchedFiles = MapDelete(@, file.Hash),
                                          !.hashMap = MapDelete(@, file.Hash)],
                       err |-> "internal error"]
                 ELSE [st |-> [st1 EXCEPT !.matchedFiles[file.Hash].Files = rest,
                                          !.hashMap = MapStore(@, file.Hash, rest[1])],
                       err |-> "nil"]
        ELSE [st |-> [st1 EXCEPT !.hashMap = MapDelete(@, file.Hash)], err |-> "nil"]

StorageRemoveFile(st, file) ==
    LET fo == FolderRemoveFile(GetFolder(st.folders, Dir(file.Path)), Dir(file.Path), file)
        st1 == [st EXCEPT !.folders = fo,
                          !.parent = FileSetParent(@, file, NilPath)]
    IN  IF file.Hash \in DOMAIN st.matchedFiles
        THEN LET rest == SeqWithout(st.matchedFiles[file.Hash].Files, file)
             IN  IF Len(rest) = 0
                 THEN [st |-> [st1 EXCEPT !.matchedFiles = MapDelete(@, file.Hash),
                                          !.hashMap = MapDelete(@, file.Hash)],
                       err |-> "internal error"]
                 ELSE IF Len(rest) = 1
                 THEN [st |-> [st1 EXCEPT !.matchedFiles = MapDelete(@, file.Hash),
                                          !.hashMap = MapStore(@, file.Hash, rest[1])],
                       err |-> "nil"]
                 ELSE [st |-> [st1 EXCEPT !.matchedFiles[file.Hash].Files = rest,
                                          !.hashMap = MapStore(@, file.Hash, rest[1])],
                       err |-> "nil"]
        ELSE [st |-> [st1 EXCEPT !.hashMap = MapDelete(@, file.Hash)], err |-> "nil"]

\* MemoryStorage.GetMatchedFiles (Range order is not fixed: a set of groups)
GetMatchedFiles(st) == MapValues(st.matchedFiles)

\* every file held in some folder's file map
StoredFiles(st) == UNION {MapValues(st.folders[p].files) : p \in DOMAIN st.folders}

----------------------------------------------------------------------------
(* SimilarityChecker *)

folderPairKey(path1, path2) ==
    IF StrLess(path2, path1) THEN path2 \o Colon \o path1
    ELSE path1 \o Colon \o path2

\* one *FolderSimilarity of a pair
NewFolderSimilarity(path, fileCount) ==
    [Path |-> path, FileCount |-> fileCount,
     DuplicateFileCount |-> 0, DuplicateFiles |-> << >>]

\* SimilarityChecker.getDuplicatedFolderPair on acc = [pairs, fo]: the pair map
\* and folder table after the call, the pair's key and the positions (1 or 2)
\* of the sides returned for folder1 and folder2.  A *FolderSimilarity is
\* identified by <<key, position>>.
getDuplicatedFolderPair(acc, path1, path2) ==
    LET key == folderPairKey(path1, path2)
        fo1 == StoreFileCount(acc.fo, path1)
        fo2 == StoreFileCount(fo1, path2)
        acc1 == IF key \in DOMAIN acc.pairs THEN acc
                ELSE [pairs |-> MapStore(acc.pairs, key,
                                  <<NewFolderSimilarity(path1, GetFileCount(acc.fo, path1)),
                                    NewFolderSimilarity(path2, GetFileCount(fo1, path2))>>),
                      fo |-> fo2]
        first == IF acc1.pairs[key][1].Path = path1 THEN 1 ELSE 2
    IN  [acc |-> acc1, key |-> key, i1 |-> first, i2 |-> 3 - first]

\* the body of the i, j loops of CalculateSimilarity for one pair of files
AddDuplicate(pairs, key, i, file) ==
    IF file.Name \in DOMAIN pairs[key][i].DuplicateFiles THEN pairs
    ELSE [pairs EXCEPT ![key][i].DuplicateFiles = MapStore(@, file.Name, file),
                       ![key][i].DuplicateFileCount = @ + 1]

MatchFilePair(acc, fi, fj) ==
    LET g == getDuplicatedFolderPair(acc, Dir(fi.Path), Dir(fj.Path))
        p1 == AddDuplicate(g.acc.pairs, g.key, g.i1, fi)
        p2 == AddDuplicate(p1, g.key, g.i2, fj)
    IN  [g.acc EXCEPT !.pairs = p2]

\* for i := 0..; for j := i+1.. over one group's Files
RECURSIVE MatchGroupFrom(_, _, _, _)
MatchGroupFrom(acc, files, i, j) ==
    IF i > Len(files) THEN acc
    ELSE IF j > Len(files) THEN MatchGroupFrom(acc, files, i + 1, i + 2)
    ELSE MatchGroupFrom(MatchFilePair(acc, files[i], files[j]), files, i, j + 1)

\* "calculate file similarity": the groups in the order they are ranged over
RECURSIVE MatchGroups(_, _)
MatchGroups(acc, groups) ==
    IF groups = << >> THEN acc
    ELSE MatchGroups(MatchGroupFrom(acc, Head(groups).Files, 1, 2), Tail(groups))

\* the common parent computed by the loop over SplitPath components
RECURSIVE CommonParentFrom(_, _, _, _)
CommonParentFrom(parents, parents2, i, commonParent) ==
    IF i > Len(parents) \/ i > Len(parents2) THEN commonParent
    ELSE IF parents[i] # parents2[i] THEN commonParent
    ELSE CommonParentFrom(parents, parents2, i + 1, Join(commonParent, parents[i]))

CommonParent(path1, path2) ==
    CommonParentFrom(SplitPath(path1), SplitPath(path2), 1, Dot)

\* the folders visited by "for current.Path != commonParent { ...; current = current.Parent }"
RECURSIVE ParentChain(_, _, _)
ParentChain(fo, path, commonParent) ==
    IF path = commonParent THEN << >>
    ELSE <<path>> \o ParentChain(fo, fo[path].Parent, commonParent)

\* the inner loop body without the "f1 != folder1" / "f2 != folder2" tests
PropagateToDoubleCount(acc, key, current1, current2) ==
    LET g == getDuplicatedFolderPair(acc, current1, current2)
        ps == g.acc.pairs
        ps1 == [ps EXCEPT ![g.key][g.i1].DuplicateFileCount =
                             @ + ps[key][1].DuplicateFileCount]
        ps2 == [ps1 EXCEPT ![g.key][g.i2].DuplicateFileCount =
                              @ + ps1[key][2].DuplicateFileCount]
    IN  [g.acc EXCEPT !.pairs = ps2]

\* the body of the inner loop of calculateParentFolderSimilarity
PropagateTo(acc, key, current1, current2) ==
    LET g == getDuplicatedFolderPair(acc, current1, current2)
        ps == g.acc.pairs
        ps1 == IF <<g.key, g.i1>> # <<key, 1>>
               THEN [ps EXCEPT ![g.key][g.i1].DuplicateFileCount =
                                  @ + ps[key][1].DuplicateFileCount]
               ELSE ps
        ps2 == IF <<g.key, g.i2>> # <<key, 2>>
               THEN [ps1 EXCEPT ![g.key][g.i2].DuplicateFileCount =
                                  @ + ps1[key][2].DuplicateFileCount]
               ELSE ps1
    IN  [g.acc EXCEPT !.pairs = ps2]

RECURSIVE PropagateLoop(_, _, _, _, _, _)
PropagateLoop(acc, key, chain1, chain2, a, b) ==
    IF a > Len(chain1) THEN acc
    ELSE IF b > Len(chain2) THEN PropagateLoop(acc, key, chain1, chain2, a + 1, 1)
    ELSE PropagateLoop(PropagateTo(acc, key, chain1[a], chain2[b]),
                       key, chain1, chain2, a, b + 1)

\* SimilarityChecker.calculateParentFolderSimilarity(folder1, folder2, folders)
\* for the two sides stored under key
calculateParentFolderSimilarity(acc, key) ==
    LET path1 == acc.pairs[key][1].Path
        path2 == acc.pairs[key][2].Path
        commonParent == CommonParent(path1, path2)
    IN  IF acc.fo[path1].Parent = acc.fo[path2].Parent THEN acc
        ELSE PropagateLoop(acc, key,
                           ParentChain(acc.fo, path1, commonParent),
                           ParentChain(acc.fo, path2, commonParent), 1, 1)

\* "apply matched folder count to parent folder": the results of ranging over
\* the direct pairs in every order a Go map range can take.  todo holds the
\* runs in progress, each with the keys it has not visited yet.
RECURSIVE PropagateAll(_)
PropagateAll(todo) ==
    IF \A t \in todo : t.keys = {} THEN {t.acc : t \in todo}
    ELSE PropagateAll(UNION {
             {[acc |-> calculateParentFolderSimilarity(t.acc, k),
               keys |-> t.keys \ {k}] : k \in t.keys} : t \in todo})

\* the reverse index when the same-folder keys are not skipped
BuildFolderMapNoSkip(pairs) ==
    LET cross == {k \in DOMAIN pairs : Len(Split(k, ":")) = 2}
        touched == UNION {{Split(k, ":")[1], Split(k, ":")[2]} : k \in cross}
    IN  [p \in touched |-> {k \in cross : p \in {Split(k, ":")[1], Split(k, ":")[2]}}]

\* the reverse index built from the pair keys; each path's list is kept as a
\* set, the order of a map range not being fixed
BuildFolderMap(pairs) ==
    LET cross == {k \in DOMAIN pairs :
                     /\ Len(Split(k, ":")) = 2
                     /\ Split(k, ":")[1] # Split(k, ":")[2]}
        touched == UNION {{Split(k, ":")[1], Split(k, ":")[2]} : k \in cross}
    IN  [p \in touched |-> {k \in cross : p \in {Split(k, ":")[1], Split(k, ":")[2]}}]

\* SimilarityChecker.ContainsSimilarityGroup
ContainsSimilarityGroup(s, path) == path \in DOMAIN s.similarityFolderMap

\* the body of the two loops of DeleteSimilarityGroup for one pair of folders;
\* acc = [pairs, deletedKeys], count1 and count2 the counts read before the loops
DeleteFromPair(acc, current1, current2, count1, count2) ==
    LET key == folderPairKey(current1, current2)
    IN  IF key \notin DOMAIN acc.pairs THEN acc
        ELSE LET first == IF acc.pairs[key][1].Path = current1 THEN 1 ELSE 2
                 ps1 == [acc.pairs EXCEPT ![key][first].DuplicateFileCount = @ - count1]
                 ps2 == [ps1 EXCEPT ![key][3 - first].DuplicateFileCount = @ - count2]
             IN  IF ps2[key][3 - first].DuplicateFileCount = 0
                    \/ ps2[key][first].DuplicateFileCount = 0
                 THEN [pairs |-> MapDelete(ps2, key),
                       deletedKeys |-> Append(acc.deletedKeys, key)]
                 ELSE [acc EXCEPT !.pairs = ps2]

RECURSIVE DeleteLoop(_, _, _, _, _, _, _)
DeleteLoop(acc, chain1, chain2, a, b, count1, count2) ==
    IF a > Len(chain1) THEN acc
    ELSE IF b > Len(chain2) THEN DeleteLoop(acc, chain1, chain2, a + 1, 1, count1, count2)
    ELSE DeleteLoop(DeleteFromPair(acc, chain1[a], chain2[b], count1, count2),
                    chain1, chain2, a, b + 1, count1, count2)

\* "delete the key map": the key leaves the list of every part of its split,
\* and a list left empty leaves the map
RECURSIVE DeleteKeyFromMap(_, _, _)
DeleteKeyFromMap(folderMap, key, folders) ==
    IF folders = << >> THEN folderMap
    ELSE LET folder == Head(folders)
             list == IF folder \in DOMAIN folderMap THEN folderMap[folder] \ {key} ELSE {}
         IN  DeleteKeyFromMap(IF list = {} THEN MapDelete(folderMap, folder)
                              ELSE MapStore(folderMap, folder, list),
                              key, Tail(folders))

RECURSIVE DeleteKeysFromMap(_, _)
DeleteKeysFromMap(folderMap, deletedKeys) ==
    IF deletedKeys = << >> THEN folderMap
    ELSE DeleteKeysFromMap(DeleteKeyFromMap(folderMap, Head(deletedKeys),
                                            Split(Head(deletedKeys), ":")),
                           Tail(deletedKeys))

\* SimilarityChecker.DeleteSimilarityGroup(folder1, folder2) with the sides at
\* positions i and 3 - i of the pair stored under key; fo is the folder table
DeleteSimilarityGroup(s, fo, key, i) ==
    LET folder1 == s.similarityFolderPairs[key][i]
        folder2 == s.similarityFolderPairs[key][3 - i]
        commonParent == CommonParent(folder1.Path, folder2.Path)
        done == DeleteLoop([pairs |-> s.similarityFolderPairs, deletedKeys |-> << >>],
                           ParentChain(fo, folder1.Path, commonParent),
                           ParentChain(fo, folder2.Path, commonParent), 1, 1,
                           folder1.DuplicateFileCount, folder2.DuplicateFileCount)
    IN  [similarityFolderPairs |-> done.pairs,
         similarityFolderMap |-> DeleteKeysFromMap(s.similarityFolderMap, done.deletedKeys)]

\* all orders in which the elements of a set can be ranged over
RECURSIVE Perms(_)
Perms(S) ==
    IF S = {} THEN {<< >>}
    ELSE UNION {{<<x>> \o p : p \in Perms(S \ {x})} : x \in S}

\* getFolderSimilarity(path1, path2, folders): the error, the pair's key and the
\* positions of the sides returned for path1 and path2
getFolderSimilarity(pairs, path1, path2) ==
    LET key == folderPairKey(path1, path2)
    IN  IF key \notin DOMAIN pairs
        THEN [err |-> "folder pair not found", key |-> key, i1 |-> 0, i2 |-> 0]
        ELSE LET first == IF pairs[key][1].Path = path1 THEN 1 ELSE 2
             IN  [err |-> "nil", key |-> key, i1 |-> first, i2 |-> 3 - first]

\* the pairs after "calculate file similarity" only
DirectPairs(st, groupOrder) ==
    MatchGroups([pairs |-> << >>, fo |-> st.folders], groupOrder).pairs

\* every result CalculateSimilarity can produce on st
CalculateSimilarity(st) ==
    LET afterA == {MatchGroups([pairs |-> << >>, fo |-> st.folders], go) :
                      go \in Perms(GetMatchedFiles(st))}
        afterB == PropagateAll({[acc |-> direct, keys |-> DOMAIN direct.pairs] :
                                   direct \in afterA})
    IN  {[sim |-> [similarityFolderPairs |-> all.pairs,
                   similarityFolderMap |-> BuildFolderMap(all.pairs)],
          folders |-> all.fo] : all \in afterB}

\* FolderSimilarity.DuplicatedPercentage of x above that of y; FileCount is
\* positive for every side CalculateSimilarity creates
PercentGreater(x, y) ==
    x.DuplicateFileCount * y.FileCount > y.DuplicateFileCount * x.FileCount

\* the less function GetSimilarityFolderGroup sorts with
GroupBefore(g, h) ==
    IF ~PercentGreater(g[1], h[1]) /\ ~PercentGreater(h[1], g[1])
    THEN IF ~PercentGreater(g[2], h[2]) /\ ~PercentGreater(h[2], g[2])
         THEN Cardinality(DOMAIN g[1].DuplicateFiles)
                  > Cardinality(DOMAIN h[1].DuplicateFiles)
         ELSE PercentGreater(g[2], h[2])
    ELSE PercentGreater(g[1], h[1])

\* a pair returned in the order it is stored in
OrientedAsStored(pair, path) == <<pair[1], pair[2]>>

\* getFolderSimilarity and the orientation of a pair towards path
Oriented(pair, path) ==
    IF pair[1].Path = path THEN <<pair[1], pair[2]>> ELSE <<pair[2], pair[1]>>

\* the output slice of GetSimilarityFolderGroup before it is sorted, as a set
GroupOutput(s, path) ==
    IF path \notin DOMAIN s.similarityFolderMap THEN {}
    ELSE {Oriented(s.similarityFolderPairs[k], path) :
              k \in {k \in s.similarityFolderMap[path] :
                        /\ Len(Split(k, ":")) = 2
                        /\ folderPairKey(Split(k, ":")[1], Split(k, ":")[2])
                               \in DOMAIN s.similarityFolderPairs}}

\* SimilarityChecker.GetSimilarityFolderGroup: every order sort.Slice can
\* leave the groups in (it is not stable)
GetSimilarityFolderGroup(s, path) ==
    {gs \in Perms(GroupOutput(s, path)) :
        \A i, j \in 1..Len(gs) : i < j => ~GroupBefore(gs[j], gs[i])}

----------------------------------------------------------------------------
(* The directory tree below the root, and Scanner.Scan *)

RECURSIVE Ancestors(_)
Ancestors(path) ==
    IF path = Dot THEN {Dot} ELSE {path} \cup Ancestors(Dir(path))

\* the tree that holds exactly the given files
TreeOf(files) ==
    [files |-> [p \in {f.Path : f \in files} |->
                   LET f == CHOOSE f \in files : f.Path = p
                   IN  [Hash |-> f.Hash, ModTime |-> f.ModTime]],
     dirs |-> UNION {Ancestors(Dir(f.Path)) : f \in files} \cup {Dot}]

\* fs.WalkDir visits the entries of a directory in lexical order of their
\* names, a directory's content before its next sibling
RECURSIVE SeqLess(_, _)
SeqLess(s, t) ==
    IF s = << >> THEN t # << >>
    ELSE IF t = << >> THEN FALSE
    ELSE IF Head(s) # Head(t) THEN StrLess(Head(s), Head(t))
    ELSE SeqLess(Tail(s), Tail(t))

WalkLess(p, q) == SeqLess(Split(p, "/"), Split(q, "/"))

\* the file the walk callback is called with next
NextWalked(tree, done) ==
    CHOOSE p \in DOMAIN tree.files \ done :
        \A q \in DOMAIN tree.files \ done : q = p \/ WalkLess(p, q)

----------------------------------------------------------------------------
(* File action tasks and the filesystem below the os.Root *)

NilFile == [Name |-> Empty, Path |-> Empty, Hash |-> Empty, ModTime |-> 0]

FileActionTask(action, file, folder, targetFolder, targetName, notDuplicate) ==
    [Action |-> action, File |-> file, Folder |-> folder,
     TargetFolder |-> targetFolder, TargetName |-> targetName,
     NotDuplicate |-> notDuplicate]

\* FileActionTask.String(), as the pieces fmt.Sprintf joins
TaskString(task) ==
    CASE task.Action = "Move" ->
            <<"move ", task.File.Path, " to ",
              Join(task.TargetFolder,
                   IF task.TargetName = Empty THEN task.File.Name ELSE task.TargetName)>>
      [] task.Action = "Delete" -> <<"delete ", task.File.Path>>
      [] task.Action = "MoveFolder" ->
            <<"move folder ", task.Folder, " to ", task.TargetFolder>>
      [] task.Action = "DeleteFolder" -> <<"Delete folder: ", task.Folder>>
      [] task.Action = "DeleteEmptyFolder" -> <<"Delete empty folder: ", task.Folder>>

\* root.Open / root.Stat succeed on a file or a directory
FsExists(tree, path) == path \in DOMAIN tree.files \/ path \in tree.dirs

\* path lies below directory d
Below(d, path) == path # d /\ IsAncestorOrSelf(d, path)

FsEntriesBelow(tree, d) ==
    {q \in (DOMAIN tree.files) \cup tree.dirs : Below(d, q)}

\* path with its prefix old replaced by new
Rebase(path, old, new) ==
    IF path = old THEN new
    ELSE Join(new, SubSeq(path, (IF old = Dot THEN 0 ELSE Len(old) + 1) + 1, Len(path)))

\* root.Rename(old, new): [fs, err]
FsRename(tree, old, new) ==
    IF old \in DOMAIN tree.files
    THEN IF Dir(new) \notin tree.dirs \/ new \in tree.dirs
         THEN [fs |-> tree, err |-> "rename: no such directory or is a directory"]
         ELSE [fs |-> [tree EXCEPT !.files =
                          MapStore(MapDelete(@, old), new, tree.files[old])],
               err |-> "nil"]
    ELSE IF old \in tree.dirs /\ old # Dot
    THEN IF \/ Dir(new) \notin tree.dirs
            \/ new \in DOMAIN tree.files
            \/ (new \in tree.dirs /\ FsEntriesBelow(tree, new) # {})
            \/ IsAncestorOrSelf(old, new)
         THEN [fs |-> tree, err |-> "rename: target exists or is invalid"]
         ELSE LET moved(q) == IF IsAncestorOrSelf(old, q) THEN Rebase(q, old, new) ELSE q
              IN  [fs |-> [files |-> [q \in {moved(f) : f \in DOMAIN tree.files} |->
                                         tree.files[CHOOSE f \in DOMAIN tree.files :
                                                        moved(f) = q]],
                           dirs |-> {moved(d) : d \in tree.dirs}],
                   err |-> "nil"]
    ELSE [fs |-> tree, err |-> "rename: no such file or directory"]

\* root.Remove(path): [fs, err]
FsRemove(tree, path) ==
    IF path \in DOMAIN tree.files
    THEN [fs |-> [tree EXCEPT !.files = MapDelete(@, path)], err |-> "nil"]
    ELSE IF path \in tree.dirs /\ path # Dot
    THEN IF FsEntriesBelow(tree, path) # {}
         THEN [fs |-> tree, err |-> "remove: directory not empty"]
         ELSE [fs |-> [tree EXCEPT !.dirs = @ \ {path}], err |-> "nil"]
    ELSE [fs |-> tree, err |-> "remove: no such file or directory"]

ErrNotEmptyFolder == "folder is not empty"

\* hidden files counted as content
RemoveEmptyFolderAnyFile(tree, path) ==
    IF ~FsExists(tree, path)
    THEN [fs |-> tree, err |-> "failed to open dir"]
    ELSE IF \E f \in DOMAIN tree.files : Dir(f) = path
    THEN [fs |-> tree, err |-> ErrNotEmptyFolder]
    ELSE [fs |-> [tree EXCEPT !.dirs = {d \in @ : ~IsAncestorOrSelf(path, d)}],
          err |-> "nil"]

\* RemoveEmptyFolder(root, path): [fs, err]
RemoveEmptyFolder(tree, path) ==
    IF ~FsExists(tree, path)
    THEN [fs |-> tree, err |-> "failed to open dir"]
    ELSE IF path \notin tree.dirs
    THEN [fs |-> tree, err |-> "failed to read dir"]
    ELSE LET isEmpty ==
                 /\ \A d \in tree.dirs : ~(d # path /\ Dir(d) = path)
                 /\ \A f \in DOMAIN tree.files : Dir(f) = path => Base(f)[1] = "."
         IN  IF ~isEmpty THEN [fs |-> tree, err |-> ErrNotEmptyFolder]
             ELSE IF path = Dot
             THEN [fs |-> tree, err |-> "failed to remove empty folder"]
             ELSE [fs |-> [files |-> [f \in {f \in DOMAIN tree.files : ~Below(path, f)} |->
                                         tree.files[f]],
                           dirs |-> {d \in tree.dirs : ~IsAncestorOrSelf(path, d)}],
                   err |-> "nil"]

----------------------------------------------------------------------------
(* The merge plan: MergeFolderPair, MergeFilePair and the tasks they yield *)

\* every order sort.Slice by Hash can leave the files of a folder in
RECURSIVE SortedByHash(_)
SortedByHash(S) ==
    IF S = {} THEN {<< >>}
    ELSE UNION {{<<f>> \o r : r \in SortedByHash(S \ {f})} :
                   f \in {f \in S : \A g \in S : ~StrLess(g.Hash, f.Hash)}}

\* the merge loop of GetMatchedFilePairs over two sorted slices
RECURSIVE MergeSorted(_, _, _, _, _)
MergeSorted(files1, files2, a, b, out) ==
    IF a > Len(files1) /\ b > Len(files2) THEN out
    ELSE IF a > Len(files1)
    THEN MergeSorted(files1, files2, a, b + 1,
                     [out EXCEPT !.folder2Only = Append(@, files2[b])])
    ELSE IF b > Len(files2)
    THEN MergeSorted(files1, files2, a + 1, b,
                     [out EXCEPT !.folder1Only = Append(@, files1[a])])
    ELSE IF files1[a].Hash = files2[b].Hash
    THEN MergeSorted(files1, files2, a + 1, b + 1,
                     [out EXCEPT !.matchedPairs = Append(@, <<files1[a], files2[b]>>)])
    ELSE IF StrLess(files1[a].Hash, files2[b].Hash)
    THEN MergeSorted(files1, files2, a + 1, b,
                     [out EXCEPT !.folder1Only = Append(@, files1[a])])
    ELSE MergeSorted(files1, files2, a, b + 1,
                     [out EXCEPT !.folder2Only = Append(@, files2[b])])

\* the merge loop run on the files in the order GetFiles returns them
GetMatchedFilePairsUnsorted(fo, path1, path2) ==
    {MergeSorted(files1, files2, 1, 1,
                 [matchedPairs |-> << >>, folder1Only |-> << >>, folder2Only |-> << >>]) :
        files1 \in Perms(GetFiles(fo, path1)),
        files2 \in Perms(GetFiles(fo, path2))}

\* GetMatchedFilePairs(folder1, folder2): every result it can produce
GetMatchedFilePairs(fo, path1, path2) ==
    {MergeSorted(files1, files2, 1, 1,
                 [matchedPairs |-> << >>, folder1Only |-> << >>, folder2Only |-> << >>]) :
        files1 \in SortedByHash(GetFiles(fo, path1)),
        files2 \in SortedByHash(GetFiles(fo, path2))}

GetFolders(fo, path) == MapValues(fo[path].Folders)

\* a matched sub-folder of the second folder left available
ChildMatchStepKeepChild(s, acc, f) ==
    {LET hit == {i \in 1..Len(groups) : groups[i][2].Path \in acc.folder2Child}
     IN  IF hit = {}
         THEN [acc EXCEPT !.folder1Only = Append(@, f)]
         ELSE [acc EXCEPT !.matchedPairs =
                              Append(@, <<f, groups[SetMin(hit)][2].Path>>)] :
        groups \in GetSimilarityFolderGroup(s, f)}

\* one round of the loop over f1.GetFolders() in GetChildFolderSimilarityMatch
ChildMatchStep(s, acc, f) ==
    {LET hit == {i \in 1..Len(groups) : groups[i][2].Path \in acc.folder2Child}
     IN  IF hit = {}
         THEN [acc EXCEPT !.folder1Only = Append(@, f)]
         ELSE [acc EXCEPT !.matchedPairs =
                              Append(@, <<f, groups[SetMin(hit)][2].Path>>),
                          !.folder2Child = @ \ {groups[SetMin(hit)][2].Path}] :
        groups \in GetSimilarityFolderGroup(s, f)}

RECURSIVE ChildMatchLoop(_, _, _, _)
ChildMatchLoop(s, accs, order, i) ==
    IF i > Len(order) THEN accs
    ELSE ChildMatchLoop(s, UNION {ChildMatchStep(s, acc, order[i]) : acc \in accs},
                        order, i + 1)

\* SimilarityChecker.GetChildFolderSimilarityMatch(f1, f2): every result
GetChildFolderSimilarityMatch(fo, s, path1, path2) ==
    UNION {{[matchedPairs |-> acc.matchedPairs, folder1Only |-> acc.folder1Only,
             folder2Only |-> rest] : rest \in Perms(acc.folder2Child)} :
              acc \in UNION {ChildMatchLoop(s,
                                 {[matchedPairs |-> << >>, folder1Only |-> << >>,
                                   folder2Child |-> GetFolders(fo, path2)]},
                                 order, 1) : order \in Perms(GetFolders(fo, path1))}}

MergeFilePair(file1, file2) == [File1 |-> file1, File2 |-> file2, Action |-> "ActionNone"]

\* the sequences that take their i-th element from sets[i]
RECURSIVE SeqProduct(_)
SeqProduct(sets) ==
    IF Len(sets) = 0 THEN {<< >>}
    ELSE {<<x>> \o r : x \in Head(sets), r \in SeqProduct(Tail(sets))}

OneSidedFolderPair(folder1, folder2, matchType) ==
    [Folder1 |-> folder1, Folder2 |-> folder2, Action |-> "ActionNone",
     MatchType |-> matchType, FilePairs |-> << >>, FolderPairs |-> << >>]

\* SimilarityChecker.GenerateMergeFolderPair(folder1, folder2): every result
RECURSIVE GenerateMergeFolderPair(_, _, _, _)
GenerateMergeFolderPair(fo, s, path1, path2) ==
    UNION {UNION {
        {[Folder1 |-> path1, Folder2 |-> path2, Action |-> "ActionNone",
          MatchType |-> "MatchBothSide",
          FilePairs |->
              [i \in 1..Len(m.matchedPairs) |->
                  MergeFilePair(m.matchedPairs[i][1], m.matchedPairs[i][2])]
              \o [i \in 1..Len(m.folder1Only) |-> MergeFilePair(m.folder1Only[i], NilFile)]
              \o [i \in 1..Len(m.folder2Only) |-> MergeFilePair(NilFile, m.folder2Only[i])],
          FolderPairs |->
              sub
              \o [i \in 1..Len(c.folder1Only) |->
                     OneSidedFolderPair(c.folder1Only[i], NilPath, "MatchOnlyLeft")]
              \o [i \in 1..Len(c.folder2Only) |->
                     OneSidedFolderPair(NilPath, c.folder2Only[i], "MatchOnlyRight")]] :
            sub \in SeqProduct([i \in 1..Len(c.matchedPairs) |->
                                   GenerateMergeFolderPair(fo, s, c.matchedPairs[i][1],
                                                           c.matchedPairs[i][2])])} :
        c \in GetChildFolderSimilarityMatch(fo, s, path1, path2)} :
        m \in GetMatchedFilePairs(fo, path1, path2)}

\* the action stored as it is given
MergeFilePairSetActionAsGiven(pair, action) == [pair EXCEPT !.Action = action]

\* MergeFilePair.SetAction
MergeFilePairSetAction(pair, action) ==
    [pair EXCEPT !.Action =
        IF action \in {"ActionMoveToLeft", "ActionDeleteRight"} /\ pair.File2 = NilFile
        THEN "ActionNone"
        ELSE IF action \in {"ActionMoveToRight", "ActionDeleteLeft"} /\ pair.File1 = NilFile
        THEN "ActionNone"
        ELSE IF action = "ActionMoveToLeft" /\ pair.File1 # NilFile
        THEN "ActionDeleteRight"
        ELSE IF action = "ActionMoveToRight" /\ pair.File2 # NilFile
        THEN "ActionDeleteLeft"
        ELSE action]

\* the action stored as it is given
MergeFolderPairSetActionAsGiven(pair, action) == [pair EXCEPT !.Action = action]

\* MergeFolderPair.SetAction
MergeFolderPairSetAction(pair, action) ==
    [pair EXCEPT !.Action =
        IF \/ /\ pair.MatchType = "MatchOnlyLeft"
              /\ action \in {"ActionMoveToLeft", "ActionDeleteRight"}
           \/ /\ pair.MatchType = "MatchOnlyRight"
              /\ action \in {"ActionMoveToRight", "ActionDeleteLeft"}
        THEN "ActionNone"
        ELSE action]

MergeFilePairGetActionTaskWrongSide(pair, folder1, folder2) ==
    FileActionTask("Delete", pair.File1, NilPath, NilPath, Empty, FALSE)

\* MergeFilePair.GetActionTask(folder1, folder2)
MergeFilePairGetActionTask(pair, folder1, folder2) ==
    CASE pair.Action = "ActionDeleteRight" ->
            FileActionTask("Delete", pair.File2, NilPath, NilPath, Empty, FALSE)
      [] pair.Action = "ActionDeleteLeft" ->
            FileActionTask("Delete", pair.File1, NilPath, NilPath, Empty, FALSE)
      [] pair.Action = "ActionMoveToRight" ->
            FileActionTask("Move", pair.File1, NilPath, folder2,
                           IF pair.File2 # NilFile THEN pair.File2.Name ELSE Empty, FALSE)
      [] pair.Action = "ActionMoveToLeft" ->
            FileActionTask("Move", pair.File2, NilPath, folder1,
                           IF pair.File1 # NilFile THEN pair.File1.Name ELSE Empty, FALSE)
      [] OTHER -> FileActionTask("Move", NilFile, NilPath, NilPath, Empty, FALSE)

\* the folder asked to be removed before its matched files are deleted
BothSideFileTasksFolderFirst(action, m, folder1, folder2) ==
    LET side == IF action \in {"ActionDeleteRight", "ActionMoveToLeft"} THEN 2 ELSE 1
    IN  <<FileActionTask("DeleteEmptyFolder", NilFile, <<folder1, folder2>>[side],
                         NilPath, Empty, FALSE)>>
          \o [i \in 1..Len(m.matchedPairs) |->
                 FileActionTask("Delete", m.matchedPairs[i][side], NilPath, NilPath,
                                Empty, FALSE)]

\* the tasks a both-side folder row adds for its own files
BothSideFileTasks(action, m, folder1, folder2) ==
    LET deletes(pairs, side) ==
            [i \in 1..Len(pairs) |->
                FileActionTask("Delete", pairs[i][side], NilPath, NilPath, Empty, FALSE)]
        deleteOnly(files) ==
            [i \in 1..Len(files) |->
                FileActionTask("Delete", files[i], NilPath, NilPath, Empty, TRUE)]
        moves(files, target) ==
            [i \in 1..Len(files) |->
                FileActionTask("Move", files[i], NilPath, target, Empty, FALSE)]
        deleteEmpty(folder) ==
            <<FileActionTask("DeleteEmptyFolder", NilFile, folder, NilPath, Empty, FALSE)>>
    IN  CASE action = "ActionDeleteRight" ->
                deletes(m.matchedPairs, 2) \o deleteOnly(m.folder2Only) \o deleteEmpty(folder2)
          [] action = "ActionDeleteLeft" ->
                deletes(m.matchedPairs, 1) \o deleteOnly(m.folder1Only) \o deleteEmpty(folder1)
          [] action = "ActionMoveToRight" ->
                deletes(m.matchedPairs, 1) \o moves(m.folder1Only, folder2)
                    \o deleteEmpty(folder1)
          [] action = "ActionMoveToLeft" ->
                deletes(m.matchedPairs, 2) \o moves(m.folder2Only, folder1)
                    \o deleteEmpty(folder2)
          [] OTHER -> << >>

RECURSIVE Flatten(_)
Flatten(seqs) == IF Len(seqs) = 0 THEN << >> ELSE Head(seqs) \o Flatten(Tail(seqs))

\* the sub-rows handed the folders the row was handed, not the row's own
RECURSIVE MergeFolderPairGetActionTaskRootTarget(_, _, _, _)
MergeFolderPairGetActionTaskRootTarget(fo, pair, folder1, folder2) ==
    IF pair.Action = "ActionNone" THEN {<< >>}
    ELSE IF pair.MatchType = "MatchBothSide"
    THEN UNION {
           {Flatten(sub) \o BothSideFileTasks(pair.Action, m, pair.Folder1, pair.Folder2) :
               sub \in SeqProduct([i \in 1..Len(pair.FolderPairs) |->
                          MergeFolderPairGetActionTaskRootTarget(fo,
                              MergeFolderPairSetAction(pair.FolderPairs[i], pair.Action),
                              folder1, folder2)])} :
           m \in GetMatchedFilePairs(fo, pair.Folder1, pair.Folder2)}
    ELSE IF pair.MatchType = "MatchOnlyLeft"
    THEN CASE pair.Action = "ActionDeleteLeft" ->
                {<<FileActionTask("DeleteFolder", NilFile, pair.Folder1, NilPath, Empty, TRUE)>>}
           [] pair.Action = "ActionMoveToRight" ->
                {<<FileActionTask("MoveFolder", NilFile, pair.Folder1, folder2, Empty, FALSE)>>}
           [] OTHER -> {<< >>}
    ELSE CASE pair.Action = "ActionDeleteRight" ->
                {<<FileActionTask("DeleteFolder", NilFile, pair.Folder2, NilPath, Empty, TRUE)>>}
           [] pair.Action = "ActionMoveToLeft" ->
                {<<FileActionTask("MoveFolder", NilFile, pair.Folder2, folder1, Empty, FALSE)>>}
           [] OTHER -> {<< >>}

\* MergeFolderPair.GetActionTask(folder1, folder2): every task list it can
\* return (GetMatchedFilePairs is evaluated on the folders as they are now)
RECURSIVE MergeFolderPairGetActionTask(_, _, _, _)
MergeFolderPairGetActionTask(fo, pair, folder1, folder2) ==
    IF pair.Action = "ActionNone" THEN {<< >>}
    ELSE IF pair.MatchType = "MatchBothSide"
    THEN UNION {
           {Flatten(sub) \o BothSideFileTasks(pair.Action, m, pair.Folder1, pair.Folder2) :
               sub \in SeqProduct([i \in 1..Len(pair.FolderPairs) |->
                          MergeFolderPairGetActionTask(fo,
                              MergeFolderPairSetAction(pair.FolderPairs[i], pair.Action),
                              pair.Folder1, pair.Folder2)])} :
           m \in GetMatchedFilePairs(fo, pair.Folder1, pair.Folder2)}
    ELSE IF pair.MatchType = "MatchOnlyLeft"
    THEN CASE pair.Action = "ActionDeleteLeft" ->
                {<<FileActionTask("DeleteFolder", NilFile, pair.Folder1, NilPath, Empty, TRUE)>>}
           [] pair.Action = "ActionMoveToRight" ->
                {<<FileActionTask("MoveFolder", NilFile, pair.Folder1, folder2, Empty, FALSE)>>}
           [] OTHER -> {<< >>}
    ELSE CASE pair.Action = "ActionDeleteRight" ->
                {<<FileActionTask("DeleteFolder", NilFile, pair.Folder2, NilPath, Empty, TRUE)>>}
           [] pair.Action = "ActionMoveToLeft" ->
                {<<FileActionTask("MoveFolder", NilFile, pair.Folder2, folder1, Empty, FALSE)>>}
           [] OTHER -> {<< >>}

\* the two cleanup tasks put first
GetActionsCleanupFirst(fo, list) ==
    {<<FileActionTask("DeleteEmptyFolder", NilFile, list.folder1, NilPath, Empty, FALSE),
       FileActionTask("DeleteEmptyFolder", NilFile, list.folder2, NilPath, Empty, FALSE)>>
       \o Flatten([i \in 1..Len(list.filePairs) |->
                      IF list.filePairs[i].Action # "ActionNone"
                      THEN <<MergeFilePairGetActionTask(list.filePairs[i],
                                                        list.folder1, list.folder2)>>
                      ELSE << >>])
       \o Flatten(sub) :
        sub \in SeqProduct([i \in 1..Len(list.folderPairs) |->
                   MergeFolderPairGetActionTask(fo, list.folderPairs[i],
                                                list.folder1, list.folder2)])}

\* comparelist Model.GetActions: every task list it can return
GetActions(fo, list) ==
    LET fileRows == {i \in 1..Len(list.filePairs) : list.filePairs[i].Action # "ActionNone"}
        fileTasks == [i \in 1..Len(list.filePairs) |->
                         IF i \in fileRows
                         THEN <<MergeFilePairGetActionTask(list.filePairs[i],
                                                           list.folder1, list.folder2)>>
                         ELSE << >>]
    IN  {Flatten(fileTasks) \o Flatten(sub)
           \o <<FileActionTask("DeleteEmptyFolder", NilFile, list.folder1, NilPath, Empty, FALSE),
                FileActionTask("DeleteEmptyFolder", NilFile, list.folder2, NilPath, Empty, FALSE)>> :
            sub \in SeqProduct([i \in 1..Len(list.folderPairs) |->
                       MergeFolderPairGetActionTask(fo, list.folderPairs[i],
                                                    list.folder1, list.folder2)])}

\* the record of the file leaves Storage before the filesystem is asked
ExecuteFileActionTaskStorageFirst(st, tree, task) ==
    CASE task.Action = "Move" ->
            LET exists == FsExists(tree, Join(task.TargetFolder, task.TargetName))
                targetName == IF task.TargetName = Empty THEN task.File.Name
                              ELSE task.TargetName
                target == Join(task.TargetFolder, targetName)
                renamed == FsRename(tree, task.File.Path, target)
                removed == StorageRemoveFile(st, task.File)
            IN  IF renamed.err # "nil"
                THEN [st |-> removed.st, fs |-> tree, err |-> renamed.err]
                ELSE IF removed.err # "nil"
                THEN [st |-> removed.st, fs |-> renamed.fs, err |-> removed.err]
                ELSE [st |-> IF exists THEN removed.st
                             ELSE StorageAddFile(removed.st,
                                      File(target, task.File.Hash, task.File.ModTime)),
                      fs |-> renamed.fs, err |-> "nil"]
      [] task.Action = "Delete" ->
            LET gone == FsRemove(tree, task.File.Path)
                removed == StorageRemoveFile(st, task.File)
            IN  IF gone.err # "nil" THEN [st |-> removed.st, fs |-> tree, err |-> gone.err]
                ELSE [st |-> removed.st, fs |-> gone.fs, err |-> removed.err]
      [] task.Action = "MoveFolder" ->
            IF task.Folder = NilPath THEN [st |-> st, fs |-> tree, err |-> "folder is nil"]
            ELSE LET targetPath == Join(task.TargetFolder, Base(task.Folder))
                     renamed == FsRename(tree, task.Folder, targetPath)
                 IN  IF FsExists(tree, targetPath)
                     THEN [st |-> st, fs |-> tree, err |-> "target folder already exists"]
                     ELSE [st |-> st, fs |-> renamed.fs, err |-> renamed.err]
      [] task.Action = "DeleteFolder" ->
            IF task.Folder = NilPath THEN [st |-> st, fs |-> tree, err |-> "folder is nil"]
            ELSE [st |-> st, fs |-> FsRemove(tree, task.Folder).fs,
                  err |-> FsRemove(tree, task.Folder).err]
      [] task.Action = "DeleteEmptyFolder" ->
            IF task.Folder = NilPath THEN [st |-> st, fs |-> tree, err |-> "folder is nil"]
            ELSE [st |-> st, fs |-> RemoveEmptyFolder(tree, task.Folder).fs,
                  err |-> RemoveEmptyFolder(tree, task.Folder).err]

\* ExecuteFileActionTask(storage, root, task): [st, fs, err]
ExecuteFileActionTask(st, tree, task) ==
    CASE task.Action = "Move" ->
            LET exists == FsExists(tree, Join(task.TargetFolder, task.TargetName))
                targetName == IF task.TargetName = Empty THEN task.File.Name
                              ELSE task.TargetName
                target == Join(task.TargetFolder, targetName)
                renamed == FsRename(tree, task.File.Path, target)
                removed == StorageRemoveFile(st, task.File)
            IN  IF renamed.err # "nil" THEN [st |-> st, fs |-> tree, err |-> renamed.err]
                ELSE IF removed.err # "nil"
                THEN [st |-> removed.st, fs |-> renamed.fs, err |-> removed.err]
                ELSE [st |-> IF exists THEN removed.st
                             ELSE StorageAddFile(removed.st,
                                      File(target, task.File.Hash, task.File.ModTime)),
                      fs |-> renamed.fs, err |-> "nil"]
      [] task.Action = "Delete" ->
            LET gone == FsRemove(tree, task.File.Path)
                removed == StorageRemoveFile(st, task.File)
            IN  IF gone.err # "nil" THEN [st |-> st, fs |-> tree, err |-> gone.err]
                ELSE [st |-> removed.st, fs |-> gone.fs, err |-> removed.err]
      [] task.Action = "MoveFolder" ->
            IF task.Folder = NilPath THEN [st |-> st, fs |-> tree, err |-> "folder is nil"]
            ELSE LET targetPath == Join(task.TargetFolder, Base(task.Folder))
                     renamed == FsRename(tree, task.Folder, targetPath)
                 IN  IF FsExists(tree, targetPath)
                     THEN [st |-> st, fs |-> tree, err |-> "target folder already exists"]
                     ELSE [st |-> st, fs |-> renamed.fs, err |-> renamed.err]
      [] task.Action = "DeleteFolder" ->
            IF task.Folder = NilPath THEN [st |-> st, fs |-> tree, err |-> "folder is nil"]
            ELSE [st |-> st, fs |-> FsRemove(tree, task.Folder).fs,
                  err |-> FsRemove(tree, task.Folder).err]
      [] task.Action = "DeleteEmptyFolder" ->
            IF task.Folder = NilPath THEN [st |-> st, fs |-> tree, err |-> "folder is nil"]
            ELSE [st |-> st, fs |-> RemoveEmptyFolder(tree, task.Folder).fs,
                  err |-> RemoveEmptyFolder(tree, task.Folder).err]

----------------------------------------------------------------------------
(* Inputs: the files a tree below the root may hold *)

Hashes == {<<"1">>, <<"2">>}

TreeDirs == {<<"p", "/", "a">>, <<"q">>, <<"q", "/", "b">>, <<"q", "/", "c">>}

FileNames == {<<"x">>, <<"y">>}

\* the modification time the scanner reads for a file (stats.ModTime())
StatModTime(path, hash) == Len(path) + CharCode(hash[1])

FileUniverse ==
    {File(Join(d, n), h, StatModTime(Join(d, n), h)) :
        d \in TreeDirs, n \in FileNames, h \in Hashes}

StoredPaths(st) == {f.Path : f \in StoredFiles(st)}

\* files directly below the root
RootFiles == {File(<<"x">>, h, StatModTime(<<"x">>, h)) : h \in Hashes}

\* the files and the folder paths the Storage calls are made with
StorageFiles == FileUniverse \cup RootFiles
StorageFolders == UNION {Ancestors(d) : d \in TreeDirs}

----------------------------------------------------------------------------
(* Values of the parts of the state a specification does not use *)

NoSim == [similarityFolderPairs |-> << >>, similarityFolderMap |-> << >>]
NoFs == [files |-> << >>, dirs |-> {}]
NoExec == << >>      \* no Executor has been created

\* NewMainModel(), with the comparelist and progress models it holds
NewMainModel ==
    [focus |-> "TreeFocus",
     folder1 |-> NilPath, folder2 |-> NilPath, filePairs |-> << >>, folderPairs |-> << >>,
     pendingActions |-> << >>, currentExecutor |-> 0, executorCancel |-> 0,
     listeners |-> << >>, inbox |-> << >>,
     progress |-> [current |-> 0, total |-> 0, message |-> << >>, cancelled |-> FALSE],
     log |-> << >>]

NoUi == NewMainModel

----------------------------------------------------------------------------
(* SpecStorage: sequential AddFile / RemoveFile calls on a MemoryStorage *)

InitStorage ==
    /\ storage = NewMemoryStorage
    /\ scanned = {}
    /\ sim = NoSim
    /\ fs = NoFs
    /\ exec = NoExec
    /\ ui = NoUi
    /\ mainPc = "ui"
    /\ hist = [op |-> "new", file |-> Empty, err |-> "nil"]

\* storage.AddFile(file) with a file that is not stored yet
AddFile(file) ==
    /\ file.Path \notin StoredPaths(storage)
    /\ file \notin DOMAIN storage.parent
    /\ Cardinality(StoredFiles(storage)) < MaxFiles
    /\ storage' = StorageAddFile(storage, file)
    /\ hist' = [op |-> "AddFile", file |-> file.Path, err |-> "nil"]
    /\ UNCHANGED <<scanned, sim, fs, exec, ui, mainPc>>

\* storage.RemoveFile(file) with a file that is stored
RemoveFile(file) ==
    /\ file \in StoredFiles(storage)
    /\ storage' = StorageRemoveFile(storage, file).st
    /\ hist' = [op |-> "RemoveFile", file |-> file.Path,
                err |-> StorageRemoveFile(storage, file).err]
    /\ UNCHANGED <<scanned, sim, fs, exec, ui, mainPc>>

\* storage.GetFolder(path) for a path that has no Folder yet
GetFolderCall(path) ==
    /\ path \notin DOMAIN storage.folders
    /\ storage' = [storage EXCEPT !.folders = GetFolder(@, path)]
    /\ hist' = [op |-> "GetFolder", file |-> Empty, err |-> "nil"]
    /\ UNCHANGED <<scanned, sim, fs, exec, ui, mainPc>>

\* folder.GetFileCount() on a Folder of the storage whose cache is not valid
GetFileCountCall(path) ==
    /\ path \in DOMAIN storage.folders
    /\ storage.folders[path].fileCountCache = 0
    /\ storage' = [storage EXCEPT !.folders = StoreFileCount(@, path)]
    /\ hist' = [op |-> "GetFileCount", file |-> Empty, err |-> "nil"]
    /\ UNCHANGED <<scanned, sim, fs, exec, ui, mainPc>>

NextStorage ==
    \/ \E file \in StorageFiles : AddFile(file)
    \/ \E file \in StorageFiles : RemoveFile(file)
    \/ \E path \in StorageFolders : GetFolderCall(path)
    \/ \E path \in StorageFolders : GetFileCountCall(path)

SpecStorage == InitStorage /\ [][NextStorage]_vars

\* storage.AddFile(file) with a File whose path is already stored
AddFileAgain(file) ==
    /\ file.Path \in StoredPaths(storage)
    /\ file \notin DOMAIN storage.parent
    /\ Cardinality(DOMAIN storage.parent) < MaxFiles
    /\ storage' = StorageAddFile(storage, file)
    /\ hist' = [op |-> "AddFileAgain", file |-> file.Path, err |-> "nil"]
    /\ UNCHANGED <<scanned, sim, fs, exec, ui, mainPc>>

\* storage.RemoveFile(file) with a File that was added and whose entry in its
\* folder was overwritten since
RemoveFileAdded(file) ==
    /\ file \in DOMAIN storage.parent
    /\ file \notin StoredFiles(storage)
    /\ storage' = StorageRemoveFile(storage, file).st
    /\ hist' = [op |-> "RemoveFileAdded", file |-> file.Path,
                err |-> StorageRemoveFile(storage, file).err]
    /\ UNCHANGED <<scanned, sim, fs, exec, ui, mainPc>>

\* the files below the root and below q: the files the calls outside the
\* contract of distinct, stored files are made with
FewFiles == {f \in StorageFiles : Dir(f.Path) \in {Dot, <<"q">>}}

\* the files of one folder
OneFolderFiles == {f \in StorageFiles : Dir(f.Path) = <<"q">>}

NextStorageReAdd ==
    \/ \E file \in OneFolderFiles : AddFile(file)
    \/ \E file \in OneFolderFiles : AddFileAgain(file)
    \/ \E file \in OneFolderFiles : RemoveFile(file)
    \/ \E file \in OneFolderFiles : RemoveFileAdded(file)
    \/ \E path \in StorageFolders : GetFileCountCall(path)

\* SpecStorageReAdd: AddFile is also called for paths that are stored
SpecStorageReAdd == InitStorage /\ [][NextStorageReAdd]_vars

\* storage.RemoveFile(file) with a file whose name is not in the file map of
\* the folder of its path
RemoveFileNotStored(file) ==
    /\ LET fo == GetFolder(storage.folders, Dir(file.Path))
       IN  /\ file.Name \notin DOMAIN fo[Dir(file.Path)].files
           /\ fo[Dir(file.Path)].fileCount > 0 - MaxFiles
    /\ storage' = StorageRemoveFile(storage, file).st
    /\ hist' = [op |-> "RemoveFileNotStored", file |-> file.Path,
                err |-> StorageRemoveFile(storage, file).err]
    /\ UNCHANGED <<scanned, sim, fs, exec, ui, mainPc>>

NextStorageAny ==
    \/ \E file \in FewFiles : AddFile(file)
    \/ \E file \in FewFiles : RemoveFile(file)
    \/ \E file \in FewFiles : RemoveFileNotStored(file)

\* SpecStorageAny: RemoveFile is also called for files that are not stored
SpecStorageAny == InitStorage /\ [][NextStorageAny]_vars

----------------------------------------------------------------------------
(* SpecPairs: the two oriented accessors of the pair map, called with folders
   of the storage in any order *)

MaxPairs == 3        \* pairs held by the pair map (SpecPairs)

\* folders directly below the root; a directory name may hold a colon
PairPaths == {<<"a">>, <<"c">>, <<"a", ":", "b">>, <<"b", ":", "c">>}

RECURSIVE GetFolders_All(_, _)
GetFolders_All(fo, paths) ==
    IF paths = {} THEN fo
    ELSE LET p == CHOOSE p \in paths : TRUE
         IN  GetFolders_All(GetFolder(fo, p), paths \ {p})

InitPairs ==
    /\ storage = [NewMemoryStorage EXCEPT !.folders = GetFolders_All(@, PairPaths)]
    /\ scanned = {}
    /\ sim = NoSim
    /\ fs = NoFs
    /\ exec = NoExec
    /\ ui = NoUi
    /\ mainPc = "ui"
    /\ hist = [op |-> "new", file |-> Empty, err |-> "nil",
               path1 |-> NilPath, path2 |-> NilPath, key |-> Empty, i1 |-> 0, i2 |-> 0]

\* s.getDuplicatedFolderPair(folder1, folder2, s.similarityFolderPairs)
PairLookupOrCreate(path1, path2) ==
    LET g == getDuplicatedFolderPair(
                 [pairs |-> sim.similarityFolderPairs, fo |-> storage.folders],
                 path1, path2)
    IN  /\ \/ g.key \in DOMAIN sim.similarityFolderPairs
           \/ Cardinality(DOMAIN sim.similarityFolderPairs) < MaxPairs
        /\ sim' = [sim EXCEPT !.similarityFolderPairs = g.acc.pairs]
        /\ storage' = [storage EXCEPT !.folders = g.acc.fo]
        /\ hist' = [op |-> "getDuplicatedFolderPair", file |-> Empty, err |-> "nil",
                    path1 |-> path1, path2 |-> path2,
                    key |-> g.key, i1 |-> g.i1, i2 |-> g.i2]
        /\ UNCHANGED <<scanned, fs, exec, ui, mainPc>>

\* getFolderSimilarity(path1, path2, s.similarityFolderPairs)
PairLookup(path1, path2) ==
    LET g == getFolderSimilarity(sim.similarityFolderPairs, path1, path2)
    IN  /\ hist' = [op |-> "getFolderSimilarity", file |-> Empty, err |-> g.err,
                    path1 |-> path1, path2 |-> path2,
                    key |-> g.key, i1 |-> g.i1, i2 |-> g.i2]
        /\ UNCHANGED <<storage, scanned, sim, fs, exec, ui, mainPc>>

NextPairs ==
    \/ \E path1, path2 \in PairPaths : PairLookupOrCreate(path1, path2)
    \/ \E path1, path2 \in PairPaths : PairLookup(path1, path2)

SpecPairs == InitPairs /\ [][NextPairs]_vars

----------------------------------------------------------------------------
(* SpecSim: main() scans a tree and computes the similarity index once *)

Trees ==
    {TreeOf(S) : S \in {S \in SUBSET FileUniverse :
                           /\ Cardinality(S) <= MaxScan
                           /\ Cardinality({f.Path : f \in S}) = Cardinality(S)}}

InitSim ==
    /\ storage = NewMemoryStorage
    /\ scanned = {}
    /\ sim = NoSim
    /\ fs \in Trees
    /\ exec = NoExec
    /\ ui = NoUi
    /\ mainPc = "scan"
    /\ hist = [op |-> "new", file |-> Empty, err |-> "nil"]

\* Scanner.Scan: the WalkDir callback for the next file of the tree
ScanFile ==
    /\ mainPc = "scan"
    /\ DOMAIN fs.files \ scanned # {}
    /\ LET path == NextWalked(fs, scanned)
       IN  /\ scanned' = scanned \cup {path}
           /\ storage' = IF Base(path)[1] = "." THEN storage
                         ELSE StorageAddFile(storage,
                                  File(path, fs.files[path].Hash, fs.files[path].ModTime))
           /\ hist' = [hist EXCEPT !.op = "ScanFile", !.file = path, !.err = "nil"]
    /\ UNCHANGED <<sim, fs, exec, ui, mainPc>>

\* Scanner.Scan returns when the walk is over
ScanDone ==
    /\ mainPc = "scan"
    /\ DOMAIN fs.files \ scanned = {}
    /\ mainPc' = "calculate"
    /\ UNCHANGED <<storage, scanned, sim, fs, exec, ui, hist>>

\* similarityChecker.CalculateSimilarity(m.GetStorage()) in main()
Calculate ==
    /\ mainPc = "calculate"
    /\ \E r \in CalculateSimilarity(storage) :
          /\ sim' = r.sim
          /\ storage' = [storage EXCEPT !.folders = r.folders]
    /\ mainPc' = "ui"
    /\ hist' = [hist EXCEPT !.op = "CalculateSimilarity", !.file = Empty, !.err = "nil"]
    /\ UNCHANGED <<scanned, fs, exec, ui>>

NextSim == ScanFile \/ ScanDone \/ Calculate

SpecSim == InitSim /\ [][NextSim]_vars

----------------------------------------------------------------------------
(* SpecIndex: the similarity index is computed once and pairs taken from it
   are then deleted with DeleteSimilarityGroup *)

\* trees with a directory whose name holds a colon
ColonDirs == {<<"a">>, <<"b", ":", "c">>}

\* the trees over ColonDirs, and a tree where the folders a and b:c hold one
\* content and the folders a:b and c another
ColonTrees ==
    LET F(d, n, h) == File(Join(d, n), h, StatModTime(Join(d, n), h))
    IN  {TreeOf(S) : S \in {S \in SUBSET {F(d, n, h) :
                                             d \in ColonDirs, n \in FileNames, h \in Hashes} :
                               /\ Cardinality(S) <= MaxScan
                               /\ Cardinality({f.Path : f \in S}) = Cardinality(S)}}
          \cup {TreeOf({F(<<"a">>, <<"x">>, <<"1">>), F(<<"b", ":", "c">>, <<"x">>, <<"1">>),
                        F(<<"a", ":", "b">>, <<"y">>, <<"2">>), F(<<"c">>, <<"y">>, <<"2">>)})}

InitIndex ==
    /\ storage = NewMemoryStorage
    /\ scanned = {}
    /\ sim = NoSim
    /\ fs \in Trees \cup ColonTrees
    /\ exec = NoExec
    /\ ui = NoUi
    /\ mainPc = "scan"
    /\ hist = [op |-> "new", file |-> Empty, err |-> "nil"]

\* similarityChecker.DeleteSimilarityGroup(pair[i], pair[3 - i]) for a pair of
\* the index
DeleteSimilarityGroupCall(key, i) ==
    /\ mainPc = "ui"
    /\ key \in DOMAIN sim.similarityFolderPairs
    /\ sim' = DeleteSimilarityGroup(sim, storage.folders, key, i)
    /\ hist' = [hist EXCEPT !.op = "DeleteSimilarityGroup"]
    /\ UNCHANGED <<storage, scanned, fs, exec, ui, mainPc>>

NextIndex ==
    \/ ScanFile
    \/ ScanDone
    \/ Calculate
    \/ \E key \in DOMAIN sim.similarityFolderPairs, i \in {1, 2} :
           DeleteSimilarityGroupCall(key, i)

SpecIndex == InitIndex /\ [][NextIndex]_vars

----------------------------------------------------------------------------
(* Executor.Execute, the progress listener and the MainModel handlers *)

ChanCapacity == 10

ProgressUpdateStale(current, total, message) ==
    [Current |-> 1, Total |-> total, Message |-> message]

ProgressUpdate(current, total, message) ==
    [Current |-> current, Total |-> total, Message |-> message]

\* NewExecutor and the context made for it; pc, i, err and message are the
\* position and locals of the goroutine running Execute
NewExecutor(tasks) ==
    [tasks |-> tasks, done |-> FALSE, progressChan |-> << >>, ctxDone |-> FALSE,
     pc |-> "select", i |-> 1, err |-> "nil", message |-> << >>, result |-> "running"]

\* what a run has done so far (ghost): the rows and the stored files it was
\* started from, the tasks executed with their outcomes, the records the
\* listener received, the tasks begun after the cancel signal, and where
\* Execute stood when the signal was raised
\* the runs the user starts in the behaviours of a specification
RunLimit == IF "runLimit" \in DOMAIN hist THEN hist.runLimit ELSE MaxExecutors

NewRun(model, st) ==
    [folder1 |-> model.folder1, folder2 |-> model.folder2,
     filePairs |-> model.filePairs, folderPairs |-> model.folderPairs,
     before |-> StoredFiles(st),
     executed |-> << >>, outcomes |-> << >>, received |-> << >>,
     afterCancel |-> 0, cancelledAt |-> "never"]

LogAppend(model, level, text) ==
    [model EXCEPT !.log = Append(@, [level |-> level, text |-> text])]

ExecSelectIgnoringCancel(e) ==
    /\ mainPc = "ui"
    /\ e \in DOMAIN exec
    /\ exec[e].pc = "select"
    /\ IF exec[e].i > Len(exec[e].tasks)
       THEN /\ exec' = [exec EXCEPT ![e].done = TRUE, ![e].pc = "returned",
                                    ![e].result = "nil"]
            /\ ui' = LogAppend(ui, "Info", <<"Execution completed">>)
       ELSE /\ exec' = [exec EXCEPT ![e].pc = "task"]
            /\ ui' = ui
    /\ UNCHANGED <<storage, scanned, sim, fs, mainPc, hist>>

\* Execute: the head of the loop and the select on ctx.Done(); the goroutine
\* of the CloseMsg handler logs what Execute returned
ExecSelect(e) ==
    /\ mainPc = "ui"
    /\ e \in DOMAIN exec
    /\ exec[e].pc = "select"
    /\ IF exec[e].i > Len(exec[e].tasks)
       THEN /\ exec' = [exec EXCEPT ![e].done = TRUE, ![e].pc = "returned",
                                    ![e].result = "nil"]
            /\ ui' = LogAppend(ui, "Info", <<"Execution completed">>)
       ELSE IF exec[e].ctxDone
       THEN /\ exec' = [exec EXCEPT ![e].pc = "returned", ![e].result = "Cancelled"]
            /\ ui' = LogAppend(ui, "Info", <<"Task execution cancelled">>)
       ELSE /\ exec' = [exec EXCEPT ![e].pc = "task"]
            /\ ui' = ui
    /\ UNCHANGED <<storage, scanned, sim, fs, mainPc, hist>>

SentinelKept(err) == err

\* Execute: errors.Is(err, ErrNotEmptyFolder) sets err to nil
SentinelSwallowed(err) == IF err = ErrNotEmptyFolder THEN "nil" ELSE err

\* Execute: ExecuteFileActionTask, task.String() and the NotEmpty sentinel
ExecTask(e) ==
    /\ mainPc = "ui"
    /\ e \in DOMAIN exec
    /\ exec[e].pc = "task"
    /\ LET task == exec[e].tasks[exec[e].i]
           r == ExecuteFileActionTask(storage, fs, task)
           sentinel == r.err = ErrNotEmptyFolder
           message == IF sentinel THEN TaskString(task) \o <<" (folder is not empty)">>
                      ELSE TaskString(task)
       IN  /\ storage' = r.st
           /\ fs' = r.fs
           /\ exec' = [exec EXCEPT ![e].pc = "send", ![e].message = message,
                                   ![e].err = SentinelSwallowed(r.err)]
           /\ hist' = [hist EXCEPT
                          !.op = "ExecuteFileActionTask",
                          !.runs[e].executed = Append(@, exec[e].i),
                          !.runs[e].outcomes = Append(@, [err |-> r.err, message |-> message]),
                          !.runs[e].afterCancel = @ + (IF exec[e].ctxDone THEN 1 ELSE 0)]
    /\ UNCHANGED <<scanned, sim, ui, mainPc>>

\* Execute: the non-blocking send of the progress record
ExecSend(e) ==
    /\ mainPc = "ui"
    /\ e \in DOMAIN exec
    /\ exec[e].pc = "send"
    /\ exec' = [exec EXCEPT
                   ![e].pc = "log",
                   ![e].progressChan =
                       IF Len(@) < ChanCapacity
                       THEN Append(@, ProgressUpdate(exec[e].i, Len(exec[e].tasks),
                                                     exec[e].message))
                       ELSE @]
    /\ UNCHANGED <<storage, scanned, sim, fs, ui, mainPc, hist>>

\* Execute: the log entry, the sleep and the return on an error
ExecLog(e) ==
    /\ mainPc = "ui"
    /\ e \in DOMAIN exec
    /\ exec[e].pc = "log"
    /\ IF exec[e].err # "nil"
       THEN /\ exec' = [exec EXCEPT ![e].pc = "returned", ![e].result = exec[e].err]
            /\ ui' = LogAppend(LogAppend(ui, "Error", <<exec[e].err>>),
                               "Error", <<exec[e].err>>)
       ELSE /\ exec' = [exec EXCEPT ![e].pc = "select", ![e].i = @ + 1]
            /\ ui' = LogAppend(ui, "Info", <<"Executed task: ">> \o exec[e].message)
    /\ UNCHANGED <<storage, scanned, sim, fs, mainPc, hist>>

\* listenProgress: a pending command receives the next record of the channel
ListenProgress(e) ==
    /\ mainPc = "ui"
    /\ e \in DOMAIN exec
    /\ ui.listeners[e] > 0
    /\ Len(exec[e].progressChan) > 0
    /\ LET update == Head(exec[e].progressChan)
       IN  /\ exec' = [exec EXCEPT ![e].progressChan = Tail(@)]
           /\ ui' = [ui EXCEPT !.listeners[e] = @ - 1,
                               !.inbox = Append(@, [type |-> "ProgressUpdateMsg",
                                                    Current |-> update.Current,
                                                    Total |-> update.Total,
                                                    Message |-> update.Message])]
           /\ hist' = [hist EXCEPT !.runs[e].received = Append(@, update)]
    /\ UNCHANGED <<storage, scanned, sim, fs, mainPc>>

MergeActions ==
    {"ActionDeleteRight", "ActionDeleteLeft", "ActionMoveToRight", "ActionMoveToLeft"}

\* comparelist Model.SetMergeFolderPair
SetMergeFolderPair(model, pair) ==
    [model EXCEPT !.filePairs = pair.FilePairs, !.folderPairs = pair.FolderPairs,
                  !.folder1 = pair.Folder1, !.folder2 = pair.Folder2]

\* comparelist Model.SetMergeFolderPair(nil)
SetMergeFolderPairNil(model) ==
    [model EXCEPT !.filePairs = << >>, !.folderPairs = << >>,
                  !.folder1 = NilPath, !.folder2 = NilPath]

\* "enter" on a folder of the tree: HandleTreeFolderSelected, with the choice
\* in the select-list dialog when the folder has several groups; the list
\* gets the focus next
HandleTreeFolderSelected(path) ==
    /\ mainPc = "ui"
    /\ Len(exec) < RunLimit
    /\ ui.focus = "TreeFocus"
    /\ path \in DOMAIN storage.folders
    /\ IF GroupOutput(sim, path) = {}
       THEN ui' = SetMergeFolderPairNil(ui)
       ELSE \E group \in GroupOutput(sim, path) :
            \E pair \in GenerateMergeFolderPair(storage.folders, sim,
                                                group[1].Path, group[2].Path) :
                ui' = [SetMergeFolderPair(ui, pair) EXCEPT !.focus = "ListFocus"]
    /\ UNCHANGED <<storage, scanned, sim, fs, exec, mainPc, hist>>

\* "tab"
KeyTab ==
    /\ mainPc = "ui"
    /\ Len(exec) < RunLimit
    /\ ui.focus \in {"TreeFocus", "ListFocus", "LogFocus"}
    /\ ui' = [ui EXCEPT !.focus = CASE @ = "TreeFocus" -> "ListFocus"
                                    [] @ = "ListFocus" -> "LogFocus"
                                    [] @ = "LogFocus" -> "TreeFocus"]
    /\ UNCHANGED <<storage, scanned, sim, fs, exec, mainPc, hist>>

\* comparelist Model.SetAllActions, from the list's key handler
SetAllActions(action) ==
    /\ mainPc = "ui"
    /\ Len(exec) < RunLimit
    /\ ui.focus = "ListFocus"
    /\ Len(ui.filePairs) > 0
    /\ ui' = [ui EXCEPT
                 !.folderPairs = [i \in 1..Len(@) |-> MergeFolderPairSetAction(@[i], action)],
                 !.filePairs = [i \in 1..Len(@) |-> MergeFilePairSetAction(@[i], action)]]
    /\ UNCHANGED <<storage, scanned, sim, fs, exec, mainPc, hist>>

\* comparelist Model.ClearAllActions, from the list's key handler
ClearAllActions ==
    /\ mainPc = "ui"
    /\ Len(exec) < RunLimit
    /\ ui.focus = "ListFocus"
    /\ Len(ui.filePairs) > 0
    /\ ui' = [ui EXCEPT
                 !.folderPairs = [i \in 1..Len(@) |->
                                     MergeFolderPairSetAction(@[i], "ActionNone")],
                 !.filePairs = [i \in 1..Len(@) |->
                                   MergeFilePairSetAction(@[i], "ActionNone")]]
    /\ UNCHANGED <<storage, scanned, sim, fs, exec, mainPc, hist>>

\* the Apply key of the list and MainModel.HandleApplyActions
HandleApplyActions ==
    /\ mainPc = "ui"
    /\ Len(exec) < RunLimit
    /\ ui.focus = "ListFocus"
    /\ Len(ui.filePairs) > 0
    /\ \E actions \in GetActions(storage.folders, ui) :
          ui' = [ui EXCEPT !.focus = "DialogFocus", !.pendingActions = actions]
    /\ UNCHANGED <<storage, scanned, sim, fs, exec, mainPc, hist>>

\* the executor is started whatever button closed the dialog
DialogCloseAnyChoice(selected) ==
    /\ mainPc = "ui"
    /\ ui.focus = "DialogFocus"
    /\ Len(exec) < RunLimit
    /\ exec' = Append(exec, NewExecutor(ui.pendingActions))
    /\ ui' = [ui EXCEPT !.focus = "ProgressFocus",
                        !.executorCancel = Len(exec) + 1,
                        !.currentExecutor = Len(exec) + 1,
                        !.listeners = Append(@, 1)]
    /\ hist' = [hist EXCEPT !.runs = Append(@, NewRun(ui, storage)
                                                   @@ [selected |-> selected])]
    /\ UNCHANGED <<storage, scanned, sim, fs, mainPc>>

\* Update on dialog.CloseMsg; main() has set the logger before the program
\* runs.  The run records (ghost) the button the dialog was closed with.
DialogClose(selected) ==
    /\ mainPc = "ui"
    /\ ui.focus = "DialogFocus"
    /\ Len(exec) < RunLimit
    /\ IF selected = "OK"
       THEN /\ exec' = Append(exec, NewExecutor(ui.pendingActions))
            /\ ui' = [ui EXCEPT !.focus = "ProgressFocus",
                                !.executorCancel = Len(exec) + 1,
                                !.currentExecutor = Len(exec) + 1,
                                !.listeners = Append(@, 1)]
            /\ hist' = [hist EXCEPT !.runs = Append(@, NewRun(ui, storage)
                                                           @@ [selected |-> selected])]
       ELSE /\ ui' = [ui EXCEPT !.pendingActions = << >>, !.focus = "TreeFocus"]
            /\ hist' = [hist EXCEPT !.op = "CloseMsg"]
            /\ UNCHANGED exec
    /\ UNCHANGED <<storage, scanned, sim, fs, mainPc>>

InboxAt(type) == {k \in 1..Len(ui.inbox) : ui.inbox[k].type = type}
InboxWithout(k) == SubSeq(ui.inbox, 1, k - 1) \o SubSeq(ui.inbox, k + 1, Len(ui.inbox))

\* Update on progress.ProgressUpdateMsg
ProgressUpdateMsg ==
    /\ mainPc = "ui"
    /\ \E k \in InboxAt("ProgressUpdateMsg") :
          LET msg == ui.inbox[k]
              shown == [ui EXCEPT !.progress.current = msg.Current,
                                  !.progress.total = msg.Total,
                                  !.progress.message = msg.Message]
          IN  ui' = IF msg.Current = msg.Total
                    THEN [shown EXCEPT !.inbox = Append(InboxWithout(k),
                                                     [type |-> "ProgressCompleteMsg"])]
                    ELSE [shown EXCEPT !.inbox = InboxWithout(k),
                                       !.listeners[ui.currentExecutor] = @ + 1]
    /\ UNCHANGED <<storage, scanned, sim, fs, exec, mainPc, hist>>

\* Update on progress.ProgressCompleteMsg, with MainModel.Refresh
ProgressCompleteMsg ==
    /\ mainPc = "ui"
    /\ \E k \in InboxAt("ProgressCompleteMsg") :
       \E r \in CalculateSimilarity(storage) :
          /\ sim' = r.sim
          /\ storage' = [storage EXCEPT !.folders = r.folders]
          /\ ui' = [SetMergeFolderPairNil(ui) EXCEPT
                       !.inbox = InboxWithout(k),
                       !.progress.message = <<"Execution completed">>,
                       !.focus = "TreeFocus"]
    /\ hist' = [hist EXCEPT !.op = "Refresh"]
    /\ UNCHANGED <<scanned, fs, exec, mainPc>>

\* "esc" in the progress dialog
KeyEsc ==
    /\ mainPc = "ui"
    /\ ui.focus = "ProgressFocus"
    /\ Cardinality(InboxAt("ProgressCancelMsg")) < MaxPendingEsc
    /\ ui' = [ui EXCEPT !.progress.cancelled = TRUE,
                        !.inbox = Append(@, [type |-> "ProgressCancelMsg"])]
    /\ UNCHANGED <<storage, scanned, sim, fs, exec, mainPc, hist>>

\* Update on progress.ProgressCancelMsg
ProgressCancelMsg ==
    /\ mainPc = "ui"
    /\ \E k \in InboxAt("ProgressCancelMsg") :
          /\ ui' = [ui EXCEPT !.inbox = InboxWithout(k), !.focus = "TreeFocus"]
          /\ exec' = IF ui.executorCancel = 0 THEN exec
                     ELSE [exec EXCEPT ![ui.executorCancel].ctxDone = TRUE]
          /\ hist' = IF ui.executorCancel = 0 \/ exec[ui.executorCancel].ctxDone THEN hist
                     ELSE [hist EXCEPT !.runs[ui.executorCancel].cancelledAt =
                                           exec[ui.executorCancel].pc]
    /\ UNCHANGED <<storage, scanned, sim, fs, mainPc>>

----------------------------------------------------------------------------
(* SpecExec: main() scans one of a few trees, then the user selects a folder *)
(* pair, sets actions, applies them and may cancel the run                   *)

NameChars == <<"1", "2", "3", "4", "5", "6", "7", "8", "9", "x", "y", "z">>

FolderA == <<"a">>
FolderB == <<"b">>
FolderAC == <<"a", "/", "c">>
FolderBC == <<"b", "/", "c">>
NameX == <<"x">>
NameY == <<"y">>

TreeFile(dir, name, hash) ==
    File(Join(dir, name), hash, StatModTime(Join(dir, name), hash))

ExecTrees ==
    {TreeOf(S) : S \in {
        \* one duplicated file
        {TreeFile(FolderA, NameX, <<"1">>), TreeFile(FolderB, NameX, <<"1">>)},
        \* a file on the left only
        {TreeFile(FolderA, NameX, <<"1">>), TreeFile(FolderA, NameY, <<"2">>), TreeFile(FolderB, NameX, <<"1">>)},
        \* the left-only file's name is taken on the right
        {TreeFile(FolderA, NameX, <<"1">>), TreeFile(FolderA, NameY, <<"2">>), TreeFile(FolderB, NameY, <<"1">>)},
        \* two copies on each side
        {TreeFile(FolderA, NameX, <<"1">>), TreeFile(FolderA, NameY, <<"1">>),
         TreeFile(FolderB, NameX, <<"1">>), TreeFile(FolderB, NameY, <<"1">>)},
        \* a sub-folder on the left only
        {TreeFile(FolderA, NameX, <<"1">>), TreeFile(FolderAC, NameY, <<"2">>), TreeFile(FolderB, NameX, <<"1">>)},
        \* matching sub-folders
        {TreeFile(FolderA, NameX, <<"1">>), TreeFile(FolderAC, NameY, <<"2">>),
         TreeFile(FolderB, NameX, <<"1">>), TreeFile(FolderBC, NameY, <<"2">>)},
        \* a hidden file on the right
        {TreeFile(FolderA, NameX, <<"1">>), TreeFile(FolderB, NameX, <<"1">>), TreeFile(FolderB, <<".", "z">>, <<"3">>)},
        \* many files on the left only
        {TreeFile(FolderA, <<NameChars[i]>>, <<NameChars[i]>>) : i \in 1..WideFiles}
            \cup {TreeFile(FolderB, <<"1">>, <<"1">>)}}}

InitExec ==
    /\ storage = NewMemoryStorage
    /\ scanned = {}
    /\ sim = NoSim
    /\ fs \in ExecTrees
    /\ exec = << >>
    /\ ui = NewMainModel
    /\ mainPc = "scan"
    /\ hist = [op |-> "new", file |-> Empty, err |-> "nil", runs |-> << >>]

NextExec ==
    \/ ScanFile
    \/ ScanDone
    \/ Calculate
    \/ \E path \in {FolderA, FolderB, FolderAC, FolderBC, Dot} : HandleTreeFolderSelected(path)
    \/ KeyTab
    \/ \E action \in MergeActions : SetAllActions(action)
    \/ ClearAllActions
    \/ HandleApplyActions
    \/ \E selected \in {"OK", "Cancel"} : DialogClose(selected)
    \/ \E e \in 1..RunLimit : ExecSelect(e)
    \/ \E e \in 1..RunLimit : ExecTask(e)
    \/ \E e \in 1..RunLimit : ExecSend(e)
    \/ \E e \in 1..RunLimit : ExecLog(e)
    \/ \E e \in 1..RunLimit : ListenProgress(e)
    \/ ProgressUpdateMsg
    \/ ProgressCompleteMsg
    \/ KeyEsc
    \/ ProgressCancelMsg

SpecExec == InitExec /\ [][NextExec]_vars

\* the tree of SpecTwoRuns: one duplicated file
TwoRunTrees == {TreeOf({TreeFile(FolderA, NameX, <<"1">>), TreeFile(FolderB, NameX, <<"1">>)})}

\* SpecTwoRuns: as SpecExec on one tree, and the user, back in the tree view
\* after "esc", may apply and confirm a second time
InitTwoRuns ==
    /\ storage = NewMemoryStorage
    /\ scanned = {}
    /\ sim = NoSim
    /\ fs \in TwoRunTrees
    /\ exec = << >>
    /\ ui = NewMainModel
    /\ mainPc = "scan"
    /\ hist = [op |-> "new", file |-> Empty, err |-> "nil", runs |-> << >>,
               runLimit |-> MaxRuns]

\* the user compares the left folder, may ask to delete the right copies,
\* applies, confirms, and may press "esc" while the tasks run
NextTwoRuns ==
    \/ ScanFile
    \/ ScanDone
    \/ Calculate
    \/ HandleTreeFolderSelected(FolderA)
    \/ SetAllActions("ActionDeleteRight")
    \/ HandleApplyActions
    \/ DialogClose("OK")
    \/ \E e \in 1..RunLimit : ExecSelect(e)
    \/ \E e \in 1..RunLimit : ExecTask(e)
    \/ \E e \in 1..RunLimit : ExecSend(e)
    \/ \E e \in 1..RunLimit : ExecLog(e)
    \/ \E e \in 1..RunLimit : ListenProgress(e)
    \/ ProgressUpdateMsg
    \/ ProgressCompleteMsg
    \/ KeyEsc
    \/ ProgressCancelMsg

SpecTwoRuns == InitTwoRuns /\ [][NextTwoRuns]_vars

----------------------------------------------------------------------------
(* SpecRace: one goroutine inside Folder.AddFile or Folder.RemoveFile and one
   inside Folder.GetFileCount on the folder or a folder above it; a step is
   one access to a sync.Map or to an atomic field.  exec holds the two
   goroutines: writer = [op, path, file, pc, at], reader = [stack, result],
   a frame of the stack being one call [path, pc, c, todo] *)

RaceFiles ==
    {TreeFile(FolderA, NameX, <<"1">>), TreeFile(FolderAC, NameX, <<"1">>),
     TreeFile(FolderAC, NameY, <<"2">>)}

\* the file AddFile is given
RaceNewFile(path) == TreeFile(path, <<"z">>, <<"3">>)

\* the storage after AddFile of every file of the set
RECURSIVE StorageWith(_, _)
StorageWith(st, files) ==
    IF files = {} THEN st
    ELSE LET f == CHOOSE f \in files : TRUE
         IN  StorageWith(StorageAddFile(st, f), files \ {f})

\* the folder table after GetFileCount was called on every folder of the set
RECURSIVE CountsStored(_, _)
CountsStored(fo, paths) ==
    IF paths = {} THEN fo
    ELSE LET q == CHOOSE q \in paths : TRUE
         IN  CountsStored(StoreFileCount(fo, q), paths \ {q})

NewFrame(path) == [path |-> path, pc |-> "load", c |-> 0, todo |-> {}]

InitRace ==
    /\ \E files \in SUBSET RaceFiles, counted \in SUBSET {Dot, FolderA, FolderAC} :
          /\ \E f \in files : Dir(f.Path) = FolderAC
          /\ storage = [StorageWith(NewMemoryStorage, files)
                           EXCEPT !.folders = CountsStored(@, counted)]
    /\ \E path \in {FolderA, FolderAC} :
       \E file \in {RaceNewFile(path)} \cup GetFiles(storage.folders, path) :
       \E read \in Ancestors(path) :
          exec = [writer |-> [op |-> IF file = RaceNewFile(path) THEN "AddFile"
                                      ELSE "RemoveFile",
                              path |-> path, file |-> file, pc |-> "store", at |-> path],
                  reader |-> [stack |-> <<NewFrame(read)>>, result |-> 0]]
    /\ scanned = {}
    /\ sim = NoSim
    /\ fs = NoFs
    /\ ui = NoUi
    /\ mainPc = "race"
    /\ hist = [op |-> "new", file |-> Empty, err |-> "nil"]

RaceUnchanged == UNCHANGED <<scanned, sim, fs, ui, mainPc, hist>>

\* f.files.Store(file.Name, file); file.Parent = f
\* f.files.Delete(file.Name); file.Parent = nil
WriterStore ==
    LET w == exec.writer
    IN  /\ mainPc = "race"
        /\ w.pc = "store"
        /\ storage' = IF w.op = "AddFile"
                      THEN [storage EXCEPT
                               !.folders[w.path].files = MapStore(@, w.file.Name, w.file),
                               !.parent = FileSetParent(@, w.file, w.path)]
                      ELSE [storage EXCEPT
                               !.folders[w.path].files = MapDelete(@, w.file.Name),
                               !.parent = FileSetParent(@, w.file, NilPath)]
        /\ exec' = [exec EXCEPT !.writer.pc = "count"]
        /\ RaceUnchanged

\* atomic.AddInt32(&f.fileCount, 1) / atomic.AddInt32(&f.fileCount, -1)
WriterCount ==
    LET w == exec.writer
    IN  /\ mainPc = "race"
        /\ w.pc = "count"
        /\ storage' = [storage EXCEPT !.folders[w.path].fileCount =
                                          @ + (IF w.op = "AddFile" THEN 1 ELSE -1)]
        /\ exec' = [exec EXCEPT !.writer.pc = "invalidate"]
        /\ RaceUnchanged

\* invalidateCache: atomic.StoreInt32(&f.fileCountCache, 0), then the parent
WriterInvalidate ==
    LET w == exec.writer
    IN  /\ mainPc = "race"
        /\ w.pc = "invalidate"
        /\ storage' = [storage EXCEPT !.folders[w.at].fileCountCache = 0]
        /\ exec' = IF storage.folders[w.at].Parent # NilPath
                   THEN [exec EXCEPT !.writer.at = storage.folders[w.at].Parent]
                   ELSE [exec EXCEPT !.writer.pc = "done"]
        /\ RaceUnchanged

\* the reader after the call on top of its stack returned value
ReaderReturn(value) ==
    LET rest == SubSeq(exec.reader.stack, 1, Len(exec.reader.stack) - 1)
    IN  IF rest = << >>
        THEN [exec EXCEPT !.reader.stack = << >>, !.reader.result = value]
        ELSE [exec EXCEPT !.reader.stack = [rest EXCEPT ![Len(rest)].c = @ + value]]

\* cached := atomic.LoadInt32(&f.fileCountCache); if cached != 0 { return }
ReaderLoadCache ==
    /\ mainPc = "race"
    /\ exec.reader.stack # << >>
    /\ LET top == exec.reader.stack[Len(exec.reader.stack)]
           cached == storage.folders[top.path].fileCountCache
       IN  /\ top.pc = "load"
           /\ exec' = IF cached # 0 THEN ReaderReturn(cached)
                      ELSE [exec EXCEPT !.reader.stack[Len(exec.reader.stack)].pc = "count"]
    /\ UNCHANGED storage
    /\ RaceUnchanged

\* c := int(atomic.LoadInt32(&f.fileCount))
ReaderLoadCount ==
    /\ mainPc = "race"
    /\ exec.reader.stack # << >>
    /\ LET n == Len(exec.reader.stack)
           top == exec.reader.stack[n]
       IN  /\ top.pc = "count"
           /\ exec' = [exec EXCEPT !.reader.stack[n] =
                           [top EXCEPT !.pc = "range",
                                       !.c = storage.folders[top.path].fileCount,
                                       !.todo = GetFolders(storage.folders, top.path)]]
    /\ UNCHANGED storage
    /\ RaceUnchanged

\* f.Folders.Range: the call of GetFileCount on the next sub-folder
ReaderRange ==
    /\ mainPc = "race"
    /\ exec.reader.stack # << >>
    /\ LET n == Len(exec.reader.stack)
           top == exec.reader.stack[n]
       IN  /\ top.pc = "range"
           /\ IF top.todo = {}
              THEN exec' = [exec EXCEPT !.reader.stack[n].pc = "save"]
              ELSE \E k \in top.todo :
                      exec' = [exec EXCEPT !.reader.stack =
                                  Append([@ EXCEPT ![n].todo = @ \ {k}], NewFrame(k))]
    /\ UNCHANGED storage
    /\ RaceUnchanged

\* atomic.StoreInt32(&f.fileCountCache, int32(c)); return c
ReaderStore ==
    /\ mainPc = "race"
    /\ exec.reader.stack # << >>
    /\ LET top == exec.reader.stack[Len(exec.reader.stack)]
       IN  /\ top.pc = "save"
           /\ storage' = [storage EXCEPT !.folders[top.path].fileCountCache = top.c]
           /\ exec' = ReaderReturn(top.c)
    /\ RaceUnchanged

NextRace ==
    \/ WriterStore
    \/ WriterCount
    \/ WriterInvalidate
    \/ ReaderLoadCache
    \/ ReaderLoadCount
    \/ ReaderRange
    \/ ReaderStore

SpecRace == InitRace /\ [][NextRace]_vars

----------------------------------------------------------------------------
(* SpecCancel: Scanner.Scan with a Context that can be cancelled while the walk
   runs.  scanned holds the entries (folders and files) the callback was
   called with, exec the context and the file the callback is working on:
   [ctxDone, visiting]; hist.late counts the files added after the
   cancellation *)

\* the entry fs.WalkDir calls the callback with next: the root first
NextEntry(tree, done) ==
    IF Dot \notin done THEN Dot
    ELSE CHOOSE p \in ((DOMAIN tree.files) \cup tree.dirs) \ done :
            \A q \in ((DOMAIN tree.files) \cup tree.dirs) \ done : q = p \/ WalkLess(p, q)

\* the select on s.Context.Done() taken only when the entry is a folder
CancelObservedAtFolders(tree, ctxDone, entry) == ctxDone /\ entry \in tree.dirs

\* select { case <-s.Context.Done(): return s.Context.Err(); default: }
CancelObserved(tree, ctxDone, entry) == ctxDone

\* fmt.Errorf("failed to walk directory %s: %w", path, err)
WalkError(path, err) == <<"failed to walk directory ", path, ": ", err>>

InitCancel ==
    /\ storage = NewMemoryStorage
    /\ scanned = {}
    /\ sim = NoSim
    /\ fs \in ExecTrees
    /\ exec = [ctxDone |-> FALSE, visiting |-> NilPath]
    /\ ui = NoUi
    /\ mainPc = "walk"
    /\ hist = [op |-> "new", file |-> Empty, err |-> <<"nil">>, late |-> 0]

\* the owner of the Context cancels it
ContextCancel ==
    /\ mainPc = "walk"
    /\ ~exec.ctxDone
    /\ exec' = [exec EXCEPT !.ctxDone = TRUE]
    /\ hist' = [hist EXCEPT !.op = "cancel"]
    /\ UNCHANGED <<storage, scanned, sim, fs, ui, mainPc>>

\* the WalkDir callback is called with the next entry: the select, then the
\* test for a folder or a hidden name
ScanVisit ==
    /\ mainPc = "walk"
    /\ exec.visiting = NilPath
    /\ ((DOMAIN fs.files) \cup fs.dirs) \ scanned # {}
    /\ LET entry == NextEntry(fs, scanned)
       IN  IF CancelObserved(fs, exec.ctxDone, entry)
           THEN /\ mainPc' = "returned"
                /\ hist' = [hist EXCEPT !.op = "Scan", !.file = entry,
                                         !.err = WalkError(Dot, "context canceled")]
                /\ UNCHANGED <<scanned, exec>>
           ELSE /\ scanned' = scanned \cup {entry}
                /\ exec' = IF entry \in fs.dirs \/ Base(entry)[1] = "." THEN exec
                           ELSE [exec EXCEPT !.visiting = entry]
                /\ hist' = [hist EXCEPT !.op = "visit", !.file = entry]
                /\ UNCHANGED mainPc
    /\ UNCHANGED <<storage, sim, fs, ui>>

\* the rest of the callback: open, stat, hash, s.Storage.AddFile
ScanAddFile ==
    /\ mainPc = "walk"
    /\ exec.visiting # NilPath
    /\ LET path == exec.visiting
       IN  /\ storage' = StorageAddFile(storage,
                             File(path, fs.files[path].Hash, fs.files[path].ModTime))
           /\ hist' = [hist EXCEPT !.op = "AddFile", !.file = path,
                                    !.late = @ + (IF exec.ctxDone THEN 1 ELSE 0)]
    /\ exec' = [exec EXCEPT !.visiting = NilPath]
    /\ UNCHANGED <<scanned, sim, fs, ui, mainPc>>

\* the walk is over: Scan returns nil
ScanReturn ==
    /\ mainPc = "walk"
    /\ exec.visiting = NilPath
    /\ ((DOMAIN fs.files) \cup fs.dirs) \ scanned = {}
    /\ mainPc' = "returned"
    /\ hist' = [hist EXCEPT !.op = "Scan", !.err = <<"nil">>]
    /\ UNCHANGED <<storage, scanned, sim, fs, exec, ui>>

NextCancel == ContextCancel \/ ScanVisit \/ ScanAddFile \/ ScanReturn

SpecCancel == InitCancel /\ [][NextCancel]_vars

----------------------------------------------------------------------------
(* SpecPlan: main() scans a tree with nested folders, the user selects a
   folder pair, sets actions row by row or on all rows, and presses Apply *)

PlanTrees ==
    LET FolderACD == Join(FolderAC, <<"d">>)
        FolderBCD == Join(FolderBC, <<"d">>)
        NameZ == <<"z">>
        top == {TreeFile(FolderA, NameX, <<"1">>), TreeFile(FolderB, NameX, <<"1">>)}
        sub == {TreeFile(FolderAC, NameY, <<"2">>), TreeFile(FolderBC, NameY, <<"2">>)}
    IN  {TreeOf(S) : S \in {
            \* matching folders three levels deep
            top \cup sub \cup {TreeFile(FolderACD, NameZ, <<"3">>),
                                TreeFile(FolderBCD, NameZ, <<"3">>)},
            \* matching folders four levels deep
            top \cup {TreeFile(Join(FolderACD, <<"e">>), NameZ, <<"3">>),
                      TreeFile(Join(FolderBCD, <<"e">>), NameZ, <<"3">>)},
            \* a folder on one side only inside matching sub-folders
            top \cup sub \cup {TreeFile(FolderACD, NameZ, <<"3">>)},
            top \cup sub \cup {TreeFile(FolderBCD, NameZ, <<"3">>)},
            \* files on one side only inside matching sub-folders
            top \cup sub \cup {TreeFile(FolderAC, NameZ, <<"3">>),
                                TreeFile(FolderBC, NameX, <<"4">>)},
            \* a sub-folder on one side only, a file on one side only
            top \cup {TreeFile(FolderAC, NameY, <<"2">>), TreeFile(FolderB, NameZ, <<"3">>)},
            top \cup {TreeFile(FolderBC, NameY, <<"2">>), TreeFile(FolderA, NameZ, <<"3">>)},
            \* two sub-folders on one side with the content of one on the other
            top \cup {TreeFile(FolderAC, NameY, <<"2">>), TreeFile(FolderBC, NameY, <<"2">>),
                      TreeFile(Join(FolderA, <<"d">>), NameZ, <<"2">>)},
            top \cup {TreeFile(FolderAC, NameY, <<"2">>), TreeFile(FolderBC, NameY, <<"2">>),
                      TreeFile(Join(FolderB, <<"d">>), NameZ, <<"2">>)},
            \* copies inside one folder
            top \cup {TreeFile(FolderA, NameY, <<"1">>), TreeFile(FolderAC, NameZ, <<"1">>),
                      TreeFile(FolderBC, NameZ, <<"1">>)},
            \* two copies on one side inside matching sub-folders
            top \cup sub \cup {TreeFile(FolderBC, NameZ, <<"2">>)}}}

InitPlan ==
    /\ storage = NewMemoryStorage
    /\ scanned = {}
    /\ sim = NoSim
    /\ fs \in PlanTrees
    /\ exec = << >>
    /\ ui = NewMainModel
    /\ mainPc = "scan"
    /\ hist = [op |-> "new", file |-> Empty, err |-> "nil", runs |-> << >>]

\* comparelist Model.SetAction(index, action) with the cursor on row index
\* (counted from 0, the folder rows first), from the list's key handler
SetActionAt(index, action) ==
    /\ mainPc = "ui"
    /\ ui.focus = "ListFocus"
    /\ Len(ui.filePairs) > 0
    /\ index < Len(ui.folderPairs) + Len(ui.filePairs)
    /\ ui' = IF index < Len(ui.folderPairs)
             THEN [ui EXCEPT !.folderPairs[index + 1] = MergeFolderPairSetAction(@, action)]
             ELSE [ui EXCEPT !.filePairs[index - Len(ui.folderPairs) + 1] =
                                 MergeFilePairSetAction(@, action)]
    /\ hist' = [hist EXCEPT !.op = "SetAction"]
    /\ UNCHANGED <<storage, scanned, sim, fs, exec, mainPc>>

NextPlan ==
    \/ ScanFile
    \/ ScanDone
    \/ Calculate
    \/ \E path \in {FolderA, FolderB, FolderAC, FolderBC} : HandleTreeFolderSelected(path)
    \/ \E index \in 0..3, action \in MergeActions \cup {"ActionNone"} :
           SetActionAt(index, action)
    \/ \E action \in MergeActions : SetAllActions(action)
    \/ HandleApplyActions

SpecPlan == InitPlan /\ [][NextPlan]_vars

\* the trees of SpecRows: a folder with a copy of its file in its sub-folder,
\* one duplicated file, and a duplicated file with a file on the left only
RowTrees ==
    {TreeOf({TreeFile(FolderA, NameX, <<"1">>), TreeFile(FolderAC, NameY, <<"1">>)}),
     TreeOf({TreeFile(FolderA, NameX, <<"1">>), TreeFile(FolderB, NameX, <<"1">>)}),
     TreeOf({TreeFile(FolderA, NameX, <<"1">>), TreeFile(FolderA, NameY, <<"2">>),
             TreeFile(FolderB, NameX, <<"1">>)})}

\* SpecRows: the user sets an action row by row, applies, confirms, and the
\* plan runs to its end
InitRows ==
    /\ storage = NewMemoryStorage
    /\ scanned = {}
    /\ sim = NoSim
    /\ fs \in RowTrees
    /\ exec = << >>
    /\ ui = NewMainModel
    /\ mainPc = "scan"
    /\ hist = [op |-> "new", file |-> Empty, err |-> "nil", runs |-> << >>]

NextRows ==
    \/ ScanFile
    \/ ScanDone
    \/ Calculate
    \/ \E path \in {FolderA, FolderAC} : HandleTreeFolderSelected(path)
    \/ \E index \in 0..1, action \in MergeActions : SetActionAt(index, action)
    \/ HandleApplyActions
    \/ \E selected \in {"OK", "Cancel"} : DialogClose(selected)
    \/ \E e \in 1..RunLimit : ExecSelect(e)
    \/ \E e \in 1..RunLimit : ExecTask(e)
    \/ \E e \in 1..RunLimit : ExecSend(e)
    \/ \E e \in 1..RunLimit : ExecLog(e)
    \/ \E e \in 1..RunLimit : ListenProgress(e)
    \/ ProgressUpdateMsg
    \/ ProgressCompleteMsg

SpecRows == InitRows /\ [][NextRows]_vars

\* another process removes a file of the scanned tree while the program is
\* in its UI: the condition under which root.Remove and root.Rename of a task
\* fail.  One removal is enough: the tree is still as it was scanned.
ExternalRemove(path) ==
    /\ mainPc = "ui"
    /\ DOMAIN fs.files = scanned
    /\ path \in DOMAIN fs.files
    /\ fs' = FsRemove(fs, path).fs
    /\ hist' = [hist EXCEPT !.op = "external"]
    /\ UNCHANGED <<storage, scanned, sim, exec, ui, mainPc>>

\* SpecTask: SpecRows on a filesystem other processes write to
NextTask ==
    \/ ScanFile
    \/ ScanDone
    \/ Calculate
    \/ \E path \in {FolderA, FolderAC} : HandleTreeFolderSelected(path)
    \/ \E index \in 0..1, action \in MergeActions : SetActionAt(index, action)
    \/ HandleApplyActions
    \/ \E selected \in {"OK", "Cancel"} : DialogClose(selected)
    \/ \E e \in 1..RunLimit : ExecSelect(e)
    \/ \E e \in 1..RunLimit : ExecTask(e)
    \/ \E e \in 1..RunLimit : ExecSend(e)
    \/ \E e \in 1..RunLimit : ExecLog(e)
    \/ \E e \in 1..RunLimit : ListenProgress(e)
    \/ ProgressUpdateMsg
    \/ ProgressCompleteMsg
    \/ \E path \in DOMAIN fs.files : ExternalRemove(path)

SpecTask == InitRows /\ [][NextTask]_vars

\* the goroutine running Execute
ExecutorStep ==
    \E e \in 1..MaxExecutors : ExecSelect(e) \/ ExecTask(e) \/ ExecSend(e) \/ ExecLog(e)

\* the goroutine of a listenProgress command
ListenerStep == \E e \in 1..MaxExecutors : ListenProgress(e)

\* the event loop hands a message the program produced to Update
UpdateStep == ProgressUpdateMsg \/ ProgressCompleteMsg \/ ProgressCancelMsg

\* SpecExec where, once the UI runs, every goroutine that can run does run;
\* the user's keys are not forced
SpecExecFair ==
    /\ InitExec /\ [][NextExec]_vars
    /\ WF_vars(ExecutorStep)
    /\ WF_vars(ListenerStep)
    /\ WF_vars(UpdateStep)

----------------------------------------------------------------------------
(* Claims *)

FilesWithHash(st, h) == {f \in StoredFiles(st) : f.Hash = h}
SeqRange(s) == {s[i] : i \in 1..Len(s)}

\* C1: after any sequence of AddFile / RemoveFile calls on distinct files,
\* for every fingerprint h the matched groups hold a group for h iff at least
\* two stored files have fingerprint h; there is at most one such group, it
\* lists exactly the stored files with fingerprint h (each once), and every
\* member has fingerprint h.
C1_GroupsMatchStoredFiles ==
    \A h \in Hashes :
        LET groups == {g \in GetMatchedFiles(storage) : g.Hash = h}
            keyed == {k \in DOMAIN storage.matchedFiles :
                         storage.matchedFiles[k].Hash = h}
        IN  /\ (groups # {}) <=> (Cardinality(FilesWithHash(storage, h)) >= 2)
            /\ Cardinality(keyed) <= 1
            /\ \A g \in groups :
                  /\ SeqRange(g.Files) = FilesWithHash(storage, h)
                  /\ Len(g.Files) = Cardinality(FilesWithHash(storage, h))
                  /\ \A i \in 1..Len(g.Files) : g.Files[i].Hash = h

\* a RemoveFile shrank a group of three files to a group of two
C1_Witness ==
    /\ hist.op = "RemoveFile"
    /\ \E h \in Hashes : /\ h \in DOMAIN storage.matchedFiles
                          /\ Len(storage.matchedFiles[h].Files) = 2
                          /\ hist.file \notin StoredPaths(storage)

----------------------------------------------------------------------------
(* Paths as the claims about the similarity index read them *)

AllFolders == UNION {Ancestors(d) : d \in TreeDirs}

\* the deepest folder that is above (or is) both x and y
CommonAncestor(x, y) ==
    CHOOSE c \in AllFolders :
        /\ IsAncestorOrSelf(c, x) /\ IsAncestorOrSelf(c, y)
        /\ \A d \in AllFolders :
              IsAncestorOrSelf(d, x) /\ IsAncestorOrSelf(d, y) => IsAncestorOrSelf(d, c)

\* the folders from x up to, but excluding, c
ChainBelow(x, c) ==
    {a \in AllFolders : IsAncestorOrSelf(a, x) /\ IsAncestorOrSelf(c, a) /\ a # c}

\* the files stored in folder p or below it
FilesUnder(st, p) == {f \in StoredFiles(st) : IsAncestorOrSelf(p, Dir(f.Path))}

SideOf(pair, path) == IF pair[1].Path = path THEN pair[1] ELSE pair[2]

\* the cross-folder pairs "calculate file similarity" produces on the storage
DirectCrossPairs(st) ==
    LET direct == DirectPairs(st, CHOOSE go \in Perms(GetMatchedFiles(st)) : TRUE)
    IN  [k \in {k \in DOMAIN direct : direct[k][1].Path # direct[k][2].Path} |-> direct[k]]

\* C4: in every pair of the index each side's duplicate count is at most the
\* side's recursive file count (so the duplicated percentage is at most 100).
C4_DuplicateCountWithinFileCount ==
    mainPc = "ui" =>
        \A k \in DOMAIN sim.similarityFolderPairs : \A i \in {1, 2} :
            LET side == sim.similarityFolderPairs[k][i]
            IN  /\ side.DuplicateFileCount <= Cardinality(FilesUnder(storage, side.Path))
                /\ side.DuplicateFileCount <= side.FileCount

\* C5: when the scan yields exactly one cross-folder direct-parent pair (A, B)
\* with duplicate counts a and b, the index holds a pair (A', B') for every A'
\* from A up to below the common ancestor and every B' likewise, with count a
\* on the A' side and count b on the B' side.
C5_AncestorPairsCarryDirectCounts ==
    mainPc = "ui" =>
        LET direct == DirectCrossPairs(storage)
        IN  Cardinality(DOMAIN direct) = 1 =>
              \A k \in DOMAIN direct :
                LET A == direct[k][1]
                    B == direct[k][2]
                    C == CommonAncestor(A.Path, B.Path)
                IN  \A A1 \in ChainBelow(A.Path, C) : \A B1 \in ChainBelow(B.Path, C) :
                      LET key == folderPairKey(A1, B1)
                      IN  /\ key \in DOMAIN sim.similarityFolderPairs
                          /\ SideOf(sim.similarityFolderPairs[key], A1).DuplicateFileCount
                                 = A.DuplicateFileCount
                          /\ SideOf(sim.similarityFolderPairs[key], B1).DuplicateFileCount
                                 = B.DuplicateFileCount

\* one direct pair between p/a (two duplicated files) and q/b, both two levels
\* below the root: the four pairs of the two chains are in the index
C5_Witness ==
    /\ mainPc = "ui"
    /\ Cardinality(DOMAIN DirectCrossPairs(storage)) = 1
    /\ \E k \in DOMAIN DirectCrossPairs(storage) :
          LET A == DirectCrossPairs(storage)[k][1]
              B == DirectCrossPairs(storage)[k][2]
          IN  /\ Len(A.Path) = 3 /\ Len(B.Path) = 3
              /\ CommonAncestor(A.Path, B.Path) = Dot
              /\ {A.DuplicateFileCount, B.DuplicateFileCount} = {1, 2}
    /\ Cardinality({k \in DOMAIN sim.similarityFolderPairs :
                        sim.similarityFolderPairs[k][1].Path
                            # sim.similarityFolderPairs[k][2].Path}) = 4

----------------------------------------------------------------------------
(* Claims about the executor and the plans it runs *)

\* the run e has just executed its current task in this step
TaskStep(e) ==
    /\ e \in DOMAIN hist.runs
    /\ Len(hist'.runs[e].executed) > Len(hist.runs[e].executed)

\* C2: after a Move(file, target_folder) task with an empty target_name
\* succeeds, Storage holds no record at the source path; if the destination
\* path target_folder/name did not exist before the task, Storage holds a
\* record at the destination with the source's fingerprint and modification
\* time; if it existed, only the source record is removed.
C2_MoveUpdatesStorage ==
    [][\A e \in DOMAIN hist.runs :
          LET task == exec[e].tasks[exec[e].i]
              dst == Join(task.TargetFolder, task.File.Name)
          IN  (/\ TaskStep(e)
               /\ task.Action = "Move"
               /\ task.TargetName = Empty
               /\ exec'[e].err = "nil")
              => /\ task.File.Path \notin StoredPaths(storage')
                 /\ IF ~FsExists(fs, dst)
                    THEN \E f \in StoredFiles(storage') :
                            /\ f.Path = dst
                            /\ f.Hash = task.File.Hash
                            /\ f.ModTime = task.File.ModTime
                    ELSE StoredFiles(storage') = StoredFiles(storage) \ {task.File}]_vars

\* the rows of run r are those SetAllActions(action) leaves, one acting
IsPlanOf(r, action) ==
    /\ \A i \in 1..Len(r.filePairs) :
          r.filePairs[i] = MergeFilePairSetAction(r.filePairs[i], action)
    /\ \A i \in 1..Len(r.folderPairs) :
          r.folderPairs[i] = MergeFolderPairSetAction(r.folderPairs[i], action)
    /\ \E i \in 1..Len(r.filePairs) : r.filePairs[i].Action = action

\* in the set files, every file below a has a copy below b and conversely,
\* and there is no other file
MutualDuplicates(files, a, b) ==
    LET under(p) == {f \in files : IsAncestorOrSelf(p, Dir(f.Path))}
    IN  /\ a # b /\ ~IsAncestorOrSelf(a, b) /\ ~IsAncestorOrSelf(b, a)
        /\ files = under(a) \cup under(b)
        /\ \A f \in under(a) : \E g \in under(b) : g.Hash = f.Hash
        /\ \A g \in under(b) : \E f \in under(a) : f.Hash = g.Hash

\* the last run executed all of a DeleteRight plan on mutual duplicates
DeleteRightDone ==
    /\ Len(exec) > 0
    /\ exec[Len(exec)].done
    /\ IsPlanOf(hist.runs[Len(exec)], "ActionDeleteRight")
    /\ MutualDuplicates(hist.runs[Len(exec)].before,
                        hist.runs[Len(exec)].folder1, hist.runs[Len(exec)].folder2)

FilesBelow(files, p) == {f \in files : IsAncestorOrSelf(p, Dir(f.Path))}

NotEmptySuffix == <<" (folder is not empty)">>

\* the messages Execute can report for a task
MessagesOf(task) == {TaskString(task), TaskString(task) \o NotEmptySuffix}

\* C6: the tasks Execute has performed are tasks 1..k of the plan in that
\* order, and the progress records received from the channel have strictly
\* increasing current values, each with current = i carrying the message
\* Execute formed for task i and total = the number of tasks.
C6_OrderedPrefixAndProgress ==
    \A e \in DOMAIN exec :
        LET r == hist.runs[e]
        IN  /\ \A k \in 1..Len(r.executed) : r.executed[k] = k
            /\ Len(r.executed) <= Len(exec[e].tasks)
            /\ \A k \in 1..Len(r.received) :
                  /\ r.received[k].Current \in 1..Len(r.executed)
                  /\ r.received[k].Total = Len(exec[e].tasks)
                  /\ r.received[k].Message = r.outcomes[r.received[k].Current].message
                  /\ r.received[k].Message
                         \in MessagesOf(exec[e].tasks[r.received[k].Current])
                  /\ k > 1 => r.received[k - 1].Current < r.received[k].Current

\* a run whose listener has received the records of three tasks, a record
\* in between having been dropped at the full channel
C6_Witness ==
    \E e \in DOMAIN exec :
        /\ Len(hist.runs[e].received) >= 3
        /\ \E k \in 2..Len(hist.runs[e].received) :
              hist.runs[e].received[k].Current > hist.runs[e].received[k - 1].Current + 1

\* C7 as stated (its safety part): once Execute has run every task of the
\* plan, the record with current = total has been received or waits in the
\* channel, so that the listener gets it.
C7_FinalRecordDelivered ==
    \A e \in DOMAIN exec :
        exec[e].done =>
            \E u \in SeqRange(exec[e].progressChan) \cup SeqRange(hist.runs[e].received) :
                u.Current = u.Total

\* cancellation was raised while Execute was running
CancelledWhileRunning(e) == hist.runs[e].cancelledAt \notin {"never", "returned"}

C9_SentinelSwallowedOthersAbort ==
    \A e \in DOMAIN exec :
        LET r == hist.runs[e]
            tasks == exec[e].tasks
        IN  /\ exec[e].result # ErrNotEmptyFolder
            /\ \A k \in 1..Len(r.outcomes) :
                  /\ r.outcomes[k].err = ErrNotEmptyFolder
                        => /\ tasks[k].Action = "DeleteEmptyFolder"
                           /\ r.outcomes[k].message = TaskString(tasks[k]) \o NotEmptySuffix
                           /\ k = Len(r.outcomes) => exec[e].err = "nil"
                           /\ (exec[e].pc = "returned" /\ k < Len(tasks))
                                 => \/ k < Len(r.executed)
                                    \/ exec[e].result = "Cancelled"
                  /\ r.outcomes[k].err # ErrNotEmptyFolder
                        => r.outcomes[k].message = TaskString(tasks[k])
                  /\ r.outcomes[k].err \notin {"nil", ErrNotEmptyFolder}
                        => /\ k = Len(r.executed)
                           /\ exec[e].pc \in {"send", "log", "returned"}
                           /\ exec[e].pc = "returned" => exec[e].result = r.outcomes[k].err

\* a sentinel was swallowed, the task after it ran and Execute returned nil
C9_Witness ==
    \E e \in DOMAIN exec :
        /\ exec[e].result = "nil"
        /\ \E k \in 1..(Len(hist.runs[e].outcomes) - 1) :
              hist.runs[e].outcomes[k].err = ErrNotEmptyFolder

\* C10 as stated: when Execute has returned, a listener of its progress
\* channel is released: none stays blocked on the empty channel.
C10_ListenerReleasedOnReturn ==
    \A e \in DOMAIN exec :
        (exec[e].pc = "returned" /\ Len(exec[e].progressChan) = 0)
            => ui.listeners[e] = 0

\* the similarity index is one CalculateSimilarity computes from the storage
IndexReflectsStorage == sim \in {r.sim : r \in CalculateSimilarity(storage)}

\* Execute of run e returned an error other than Cancelled before its last task
AbortedEarly(e) ==
    /\ e \in DOMAIN exec
    /\ exec[e].pc = "returned"
    /\ exec[e].result \notin {"nil", "Cancelled"}
    /\ exec[e].i < Len(exec[e].tasks)

\* the log view shows the error Execute of run e returned
ErrorLogged(e) ==
    /\ e \in DOMAIN exec
    /\ \E k \in DOMAIN ui.log :
          ui.log[k] = [level |-> "Error", text |-> <<exec[e].result>>]

\* no goroutine of the program can take a step: every Execute has returned,
\* no progress record waits in a channel and no message waits for Update
ProgramIdle ==
    /\ ui.inbox = << >>
    /\ \A e \in DOMAIN exec : exec[e].pc = "returned" /\ exec[e].progressChan = << >>

\* C11: when a task fails with an error other than the NotEmpty sentinel and
\* Execute returns before the last task, then once the program has nothing
\* left to do the UI has left the progress-dialog focus, the error is in the
\* log and the similarity index is the one computed from the Storage the run
\* left.
C11_AbortClosesDialogAndRefreshes ==
    \A e \in DOMAIN exec :
        (AbortedEarly(e) /\ ProgramIdle)
            => /\ ui.focus # "ProgressFocus"
               /\ ErrorLogged(e)
               /\ IndexReflectsStorage

\* C12: when the user has cancelled a run, eventually the UI is in the tree
\* focus and the similarity index is the one computed from the Storage the
\* run left.
C12_CancelReturnsToTreeAndRefreshes ==
    \A e \in 1..MaxExecutors :
        (e \in DOMAIN exec /\ exec[e].ctxDone)
            ~> (ui.focus = "TreeFocus" /\ IndexReflectsStorage)

\* C13: once every file that was added has been removed again, no matched
\* group is left and GetFileCount is 0 for every folder, the root included.
C13_RoundTripLeavesNothing ==
    (DOMAIN storage.parent = {} /\ StoredFiles(storage) = {})
        => /\ GetMatchedFiles(storage) = {}
           /\ \A p \in DOMAIN storage.folders : GetFileCount(storage.folders, p) = 0

\* the last stored file has just been removed without an error, and the
\* folder table holds the root and folders of different depth
C13_Witness ==
    /\ hist.op = "RemoveFile"
    /\ hist.err = "nil"
    /\ StoredFiles(storage) = {}
    /\ {Dot, <<"q">>, <<"q", "/", "b">>, <<"p", "/", "a">>} \subseteq DOMAIN storage.folders

\* C14: GetFileCount of every folder is the number of files stored in it and
\* in the folders below it, and a cache that is not zero holds that number.
C14_FileCountIsStoredFiles ==
    \A p \in DOMAIN storage.folders :
        /\ GetFileCount(storage.folders, p) = Cardinality(FilesUnder(storage, p))
        /\ storage.folders[p].fileCountCache # 0
               => storage.folders[p].fileCountCache = Cardinality(FilesUnder(storage, p))

\* C15: RemoveFile of a file whose name is not stored in the folder of its
\* path returns an error.
C15_RemoveOfMissingFileFails ==
    hist.op = "RemoveFileNotStored" => hist.err # "nil"

\* the folder the chain of Parent links of p ends at (p itself when it has
\* no parent, NilPath when a link leaves the folder table)
RECURSIVE ChainEnd(_, _)
ChainEnd(fo, p) ==
    IF p \notin DOMAIN fo THEN NilPath
    ELSE IF fo[p].Parent = NilPath THEN p
    ELSE ChainEnd(fo, fo[p].Parent)

\* C16: the storage holds one Folder per path; every folder's parent chain
\* ends at the root "."; every folder but the root is in its parent's child
\* map under its base name; every stored file is in the file map of the
\* folder of its directory under its base name, and its Parent is that folder.
C16_FolderTreeWellFormed ==
    /\ \A p \in DOMAIN storage.folders :
          /\ storage.folders[p].Path = p
          /\ storage.folders[p].Name = Base(p)
          /\ ChainEnd(storage.folders, p) = Dot
          /\ p # Dot =>
                /\ storage.folders[p].Parent = Dir(p)
                /\ Base(p) \in DOMAIN storage.folders[Dir(p)].Folders
                /\ storage.folders[Dir(p)].Folders[Base(p)] = p
          /\ \A n \in DOMAIN storage.folders[p].Folders :
                storage.folders[p].Folders[n] = Join(p, n)
          /\ \A n \in DOMAIN storage.folders[p].files :
                LET f == storage.folders[p].files[n]
                IN  /\ f.Name = n
                    /\ Base(f.Path) = n
                    /\ Dir(f.Path) = p
                    /\ f \in DOMAIN storage.parent
                    /\ storage.parent[f] = p
    /\ \A f \in DOMAIN storage.parent :
          /\ storage.parent[f] = Dir(f.Path)
          /\ f \in StoredFiles(storage)

\* a file directly below the root and a file two folders deep are stored,
\* and a folder that holds no file was created by GetFolder
C16_Witness ==
    /\ <<"x">> \in StoredPaths(storage)
    /\ \E f \in StoredFiles(storage) : Dir(f.Path) = <<"p", "/", "a">>
    /\ <<"q", "/", "c">> \in DOMAIN storage.folders
    /\ FilesUnder(storage, <<"q">>) = {}

\* the sides the last accessor call returned
ReturnedFirst == sim.similarityFolderPairs[hist.key][hist.i1]
ReturnedSecond == sim.similarityFolderPairs[hist.key][hist.i2]

AccessorReturned ==
    /\ hist.op \in {"getDuplicatedFolderPair", "getFolderSimilarity"}
    /\ hist.err = "nil"

\* C17: the pair key of (a, b) is the pair key of (b, a), the pair map holds
\* at most one pair for an unordered pair of folders, and an accessor called
\* with (a, b) that finds or creates the pair returns the side of a first
\* and the side of b second
C17_PairCanonical ==
    /\ \A a, b \in PairPaths : folderPairKey(a, b) = folderPairKey(b, a)
    /\ \A k, l \in DOMAIN sim.similarityFolderPairs :
           {sim.similarityFolderPairs[k][1].Path, sim.similarityFolderPairs[k][2].Path}
             = {sim.similarityFolderPairs[l][1].Path, sim.similarityFolderPairs[l][2].Path}
           => k = l
    /\ AccessorReturned =>
           /\ ReturnedFirst.Path = hist.path1
           /\ ReturnedSecond.Path = hist.path2

IndexPairs == sim.similarityFolderPairs

\* C18: once the index is computed, and after any DeleteSimilarityGroup calls
\* on pairs of the index, both sides of every pair of the pair map have a
\* positive DuplicateFileCount
C18_PairCountsPositive ==
    mainPc = "ui" =>
        \A k \in DOMAIN IndexPairs :
            /\ IndexPairs[k][1].DuplicateFileCount > 0
            /\ IndexPairs[k][2].DuplicateFileCount > 0

\* the pairs of the pair map between path and a different folder
CrossPairsOf(path) ==
    {k \in DOMAIN IndexPairs :
        /\ path \in {IndexPairs[k][1].Path, IndexPairs[k][2].Path}
        /\ IndexPairs[k][1].Path # IndexPairs[k][2].Path}

\* C19: once the index is computed, and after any DeleteSimilarityGroup
\* calls, ContainsSimilarityGroup(path) is true exactly when the pair map
\* holds a pair between path and a different folder, every key listed for a
\* path is a pair of the pair map with path as a side, and every pair of two
\* different folders is listed under both
C19_ReverseIndexMatchesPairs ==
    mainPc = "ui" =>
        /\ \A path \in DOMAIN storage.folders :
               ContainsSimilarityGroup(sim, path) <=> CrossPairsOf(path) # {}
        /\ \A path \in DOMAIN sim.similarityFolderMap :
               sim.similarityFolderMap[path] \subseteq CrossPairsOf(path)
        /\ \A path \in DOMAIN storage.folders :
               \A k \in CrossPairsOf(path) :
                   /\ path \in DOMAIN sim.similarityFolderMap
                   /\ k \in sim.similarityFolderMap[path]

\* the same statement on trees whose directory names hold no colon
C19_HoldsWithoutColon ==
    (\A d \in fs.dirs : ":" \notin SeqRange(d)) => C19_ReverseIndexMatchesPairs

\* C20: GetSimilarityFolderGroup(path) returns no pair whose two sides are
\* both the folder path, also when two files of one folder have the same hash
C20_NoSelfPairInGroups ==
    mainPc = "ui" =>
        \A path \in DOMAIN storage.folders :
            \A groups \in GetSimilarityFolderGroup(sim, path) :
                \A i \in 1..Len(groups) :
                    ~(groups[i][1].Path = path /\ groups[i][2].Path = path)

\* the index was computed on a storage with two files of one hash in one folder,
\* the pair map holds that folder's pair with itself, and
\* GetSimilarityFolderGroup returns a group for the folder
C20_Witness ==
    /\ mainPc = "ui"
    /\ \E path \in DOMAIN storage.folders :
           /\ \E f, g \in GetFiles(storage.folders, path) : f # g /\ f.Hash = g.Hash
           /\ \E k \in DOMAIN IndexPairs :
                  IndexPairs[k][1].Path = path /\ IndexPairs[k][2].Path = path
           /\ GroupOutput(sim, path) # {}

\* the sign of DuplicatedPercentage(x) - DuplicatedPercentage(y)
PercentDiff(x, y) == x.DuplicateFileCount * y.FileCount - y.DuplicateFileCount * x.FileCount

\* group g does not rank below group h: side-0 percentage, then side-1
\* percentage, then the size of side 0's duplicate-file map, all descending
RankNotBelow(g, h) ==
    \/ PercentDiff(g[1], h[1]) > 0
    \/ /\ PercentDiff(g[1], h[1]) = 0
       /\ \/ PercentDiff(g[2], h[2]) > 0
          \/ /\ PercentDiff(g[2], h[2]) = 0
             /\ Cardinality(DOMAIN g[1].DuplicateFiles)
                    >= Cardinality(DOMAIN h[1].DuplicateFiles)

KeysListed(path) ==
    IF path \in DOMAIN sim.similarityFolderMap THEN sim.similarityFolderMap[path] ELSE {}

\* C21: GetSimilarityFolderGroup(path) returns one entry for every pair key the
\* reverse index lists for path, each with the side of path first, and the
\* entries are in descending order of side-0 percentage, then side-1
\* percentage, then size of side 0's duplicate-file map
C21_GroupsOrientedAndOrdered ==
    mainPc = "ui" =>
        \A path \in DOMAIN storage.folders :
            \A groups \in GetSimilarityFolderGroup(sim, path) :
                /\ Len(groups) = Cardinality(KeysListed(path))
                /\ \A k \in KeysListed(path) :
                       \E i \in 1..Len(groups) :
                           {groups[i][1], groups[i][2]} = {IndexPairs[k][1], IndexPairs[k][2]}
                /\ \A i \in 1..Len(groups) : groups[i][1].Path = path
                /\ \A i, j \in 1..Len(groups) :
                       i < j => RankNotBelow(groups[i], groups[j])

\* a folder with two groups of different rank, one of them stored with the
\* folder as its second side
C21_Witness ==
    /\ mainPc = "ui"
    /\ \E path \in DOMAIN storage.folders :
           /\ \E k \in KeysListed(path) : IndexPairs[k][2].Path = path
           /\ \E groups \in GetSimilarityFolderGroup(sim, path) :
                  /\ Len(groups) >= 2
                  /\ ~RankNotBelow(groups[2], groups[1])

\* the hashes of a sequence of files never go down
HashAscending(files) ==
    \A i, j \in 1..Len(files) : i < j => ~StrLess(files[j].Hash, files[i].Hash)

\* files lists every file of the set once
ListsEachOnce(files, set) ==
    Len(files) = Cardinality(set) /\ SeqRange(files) = set

\* C22: for the two compared folders, GetMatchedFilePairs puts every direct
\* file of folder1 once on the left of a matched pair or in folder1Only, and
\* every direct file of folder2 once on the right or in folder2Only; matched
\* files have equal hashes and the three lists are in ascending hash order
C22_MatchedPairsPartition ==
    (mainPc = "ui" /\ ui.folder1 # NilPath) =>
        \A r \in GetMatchedFilePairs(storage.folders, ui.folder1, ui.folder2) :
            LET left == [i \in 1..Len(r.matchedPairs) |-> r.matchedPairs[i][1]]
                right == [i \in 1..Len(r.matchedPairs) |-> r.matchedPairs[i][2]]
            IN  /\ ListsEachOnce(left \o r.folder1Only, GetFiles(storage.folders, ui.folder1))
                /\ ListsEachOnce(right \o r.folder2Only, GetFiles(storage.folders, ui.folder2))
                /\ Len(r.matchedPairs) * 2 + Len(r.folder1Only) + Len(r.folder2Only)
                       = Cardinality(GetFiles(storage.folders, ui.folder1))
                           + Cardinality(GetFiles(storage.folders, ui.folder2))
                /\ \A i \in 1..Len(left) : left[i].Hash = right[i].Hash
                /\ HashAscending(left)
                /\ HashAscending(r.folder1Only)
                /\ HashAscending(r.folder2Only)
                /\ Len(ui.filePairs) = Len(left) + Len(r.folder1Only) + Len(r.folder2Only)
                /\ {ui.filePairs[i].File1 : i \in 1..Len(ui.filePairs)} \ {NilFile}
                       = GetFiles(storage.folders, ui.folder1)

\* the compared folders have a matched pair and a file on either side only,
\* the right-only file with a hash that differs from the matched one
C22_Witness ==
    /\ mainPc = "ui"
    /\ ui.folder1 # NilPath
    /\ \E r \in GetMatchedFilePairs(storage.folders, ui.folder1, ui.folder2) :
           /\ Len(r.matchedPairs) >= 1
           /\ Len(r.folder1Only) >= 1
           /\ Len(r.folder2Only) >= 1
           /\ StrLess(r.folder2Only[1].Hash, r.matchedPairs[1][1].Hash)
              \/ StrLess(r.matchedPairs[1][1].Hash, r.folder2Only[1].Hash)

\* the action a file row may hold
FileRowActionAllowed(row) ==
    /\ row.Action \in MergeActions \cup {"ActionNone"}
    /\ row.File2 = NilFile => row.Action \notin {"ActionMoveToLeft", "ActionDeleteRight"}
    /\ row.File1 = NilFile => row.Action \notin {"ActionMoveToRight", "ActionDeleteLeft"}
    /\ (row.File1 # NilFile /\ row.File2 # NilFile)
           => row.Action \notin {"ActionMoveToLeft", "ActionMoveToRight"}

\* the file row under the cursor at index, 0 when the cursor is on a folder row
FileRowAt(index) ==
    IF index < Len(ui.folderPairs) THEN 0 ELSE index - Len(ui.folderPairs) + 1

\* C23: whatever SetAction calls were made, a file row holds ActionNone or an
\* action whose file is on the row (no MoveToLeft / DeleteRight on a left-only
\* row, no MoveToRight / DeleteLeft on a right-only row, no Move on a
\* two-sided row), its task has a file when its action is not ActionNone,
\* and SetAction on a two-sided row stores MoveToLeft as DeleteRight and
\* MoveToRight as DeleteLeft
C23_FileRowActionPolicy ==
    /\ [](\A i \in 1..Len(ui.filePairs) :
             /\ FileRowActionAllowed(ui.filePairs[i])
             /\ ui.filePairs[i].Action # "ActionNone" =>
                    MergeFilePairGetActionTask(ui.filePairs[i], ui.folder1, ui.folder2).File
                        # NilFile)
    /\ [][\A index \in 0..3, action \in MergeActions :
             (/\ SetActionAt(index, action)
              /\ FileRowAt(index) > 0
              /\ ui.filePairs[FileRowAt(index)].File1 # NilFile
              /\ ui.filePairs[FileRowAt(index)].File2 # NilFile)
             => ui'.filePairs[FileRowAt(index)].Action =
                    CASE action = "ActionMoveToLeft" -> "ActionDeleteRight"
                      [] action = "ActionMoveToRight" -> "ActionDeleteLeft"
                      [] OTHER -> action]_vars

\* a left-only row holds MoveToRight, a right-only row holds MoveToLeft and a
\* two-sided row holds a Delete action
C23_Witness ==
    /\ \E i \in 1..Len(ui.filePairs) :
           ui.filePairs[i].File2 = NilFile /\ ui.filePairs[i].Action = "ActionMoveToRight"
    /\ \E i \in 1..Len(ui.filePairs) :
           ui.filePairs[i].File1 = NilFile /\ ui.filePairs[i].Action = "ActionMoveToLeft"
    /\ \E i \in 1..Len(ui.filePairs) :
           /\ ui.filePairs[i].File1 # NilFile
           /\ ui.filePairs[i].File2 # NilFile
           /\ ui.filePairs[i].Action = "ActionDeleteRight"

AnyAction == MergeActions \cup {"ActionNone"}

\* the rows below a folder row, at every depth
RECURSIVE NestedRows(_)
NestedRows(row) ==
    UNION {{row.FolderPairs[i]} \cup NestedRows(row.FolderPairs[i]) :
              i \in 1..Len(row.FolderPairs)}

\* the row with action stored on every row below it
RECURSIVE WithSubActions(_, _)
WithSubActions(row, action) ==
    [row EXCEPT !.FolderPairs =
        [i \in 1..Len(@) |-> WithSubActions([@[i] EXCEPT !.Action = action], action)]]

\* the action a folder row may hold
FolderRowActionAllowed(row) ==
    /\ row.Action \in AnyAction
    /\ row.MatchType = "MatchOnlyLeft"
           => row.Action \notin {"ActionMoveToLeft", "ActionDeleteRight"}
    /\ row.MatchType = "MatchOnlyRight"
           => row.Action \notin {"ActionMoveToRight", "ActionDeleteLeft"}

\* the tasks show that the row sub, below a row with the given action, was
\* given that action: a one-sided row of the source side has its folder
\* deleted or moved, a one-sided row of the other side has no task, and a
\* two-sided row has the DeleteEmptyFolder of its source-side folder
SubRowGotAction(tasks, sub, action) ==
    LET about(kind, folder) ==
            {k \in 1..Len(tasks) : tasks[k].Action = kind /\ tasks[k].Folder = folder}
        any(folder) == {k \in 1..Len(tasks) : tasks[k].Folder = folder}
    IN  CASE sub.MatchType = "MatchOnlyLeft" ->
                CASE action = "ActionDeleteLeft" -> about("DeleteFolder", sub.Folder1) # {}
                  [] action = "ActionMoveToRight" -> about("MoveFolder", sub.Folder1) # {}
                  [] OTHER -> any(sub.Folder1) = {}
          [] sub.MatchType = "MatchOnlyRight" ->
                CASE action = "ActionDeleteRight" -> about("DeleteFolder", sub.Folder2) # {}
                  [] action = "ActionMoveToLeft" -> about("MoveFolder", sub.Folder2) # {}
                  [] OTHER -> any(sub.Folder2) = {}
          [] OTHER ->
                IF action \in {"ActionDeleteRight", "ActionMoveToLeft"}
                THEN about("DeleteEmptyFolder", sub.Folder2) # {}
                ELSE about("DeleteEmptyFolder", sub.Folder1) # {}

\* C24: a left-only folder row never holds MoveToLeft or DeleteRight and a
\* right-only folder row never holds MoveToRight or DeleteLeft (asked for,
\* they are stored as ActionNone and the row yields no task); the tasks of a
\* two-sided folder row give every row below it, at every depth, the row's
\* action, whatever action was stored on the rows below
C24_FolderRowPolicyAndCascade ==
    /\ [](\A i \in 1..Len(ui.folderPairs) :
             LET row == ui.folderPairs[i]
                 generated == MergeFolderPairGetActionTask(storage.folders, row,
                                                           ui.folder1, ui.folder2)
             IN  /\ FolderRowActionAllowed(row)
                 /\ row.Action = "ActionNone" => generated = {<< >>}
                 /\ (row.MatchType = "MatchBothSide" /\ row.Action # "ActionNone") =>
                        /\ \A tasks \in generated : \A sub \in NestedRows(row) :
                               SubRowGotAction(tasks, sub, row.Action)
                        /\ \A action \in AnyAction :
                               MergeFolderPairGetActionTask(storage.folders,
                                   WithSubActions(row, action), ui.folder1, ui.folder2)
                                 = generated)
    /\ [][\A index \in 0..3, action \in MergeActions :
             (/\ SetActionAt(index, action)
              /\ index < Len(ui.folderPairs)
              /\ \/ /\ ui.folderPairs[index + 1].MatchType = "MatchOnlyLeft"
                    /\ action \in {"ActionMoveToLeft", "ActionDeleteRight"}
                 \/ /\ ui.folderPairs[index + 1].MatchType = "MatchOnlyRight"
                    /\ action \in {"ActionMoveToRight", "ActionDeleteLeft"})
             => ui'.folderPairs[index + 1].Action = "ActionNone"]_vars

\* a two-sided folder row with an action has a two-sided row below it that has
\* a row below it in turn, and another list has one-sided folder rows
C24_Witness ==
    \E i \in 1..Len(ui.folderPairs) :
        /\ ui.folderPairs[i].MatchType = "MatchBothSide"
        /\ ui.folderPairs[i].Action = "ActionMoveToRight"
        /\ \E sub \in NestedRows(ui.folderPairs[i]) :
               sub.MatchType = "MatchBothSide" /\ sub.FolderPairs # << >>

\* the folder holds no sub-folder and no file whose name does not start with "."
OnlyHiddenFiles(tree, folder) ==
    /\ \A d \in tree.dirs : Dir(d) = folder => d = folder
    /\ \A f \in DOMAIN tree.files : Dir(f) = folder => Base(f)[1] = "."

\* C25: a DeleteEmptyFolder task on an existing folder succeeds and removes
\* the folder with the dot-prefixed files in it exactly when the folder holds
\* no sub-folder and no file whose name does not start with "."; otherwise
\* it ends with the NotEmptyFolder sentinel and the filesystem is unchanged
C25_DeleteEmptyFolderOnlyHidden ==
    [][\A e \in DOMAIN exec :
          LET task == exec[e].tasks[exec[e].i]
              outcome == hist'.runs[e].outcomes[Len(hist'.runs[e].outcomes)]
              kept == {f \in DOMAIN fs.files : Dir(f) # task.Folder}
          IN  (/\ TaskStep(e)
               /\ task.Action = "DeleteEmptyFolder"
               /\ task.Folder \in fs.dirs)
              => IF OnlyHiddenFiles(fs, task.Folder)
                 THEN /\ outcome.err = "nil"
                      /\ fs'.dirs = fs.dirs \ {task.Folder}
                      /\ fs'.files = [f \in kept |-> fs.files[f]]
                 ELSE /\ outcome.err = ErrNotEmptyFolder
                      /\ fs' = fs]_vars

\* one run removed a folder that held a hidden file only and was refused
\* the removal of a folder that still holds a file
C25_Witness ==
    \E e \in DOMAIN exec :
        /\ e \in DOMAIN hist.runs
        /\ \E k \in 1..Len(hist.runs[e].executed) :
              LET task == exec[e].tasks[hist.runs[e].executed[k]]
              IN  /\ task.Action = "DeleteEmptyFolder"
                  /\ task.Folder = FolderB
                  /\ hist.runs[e].outcomes[k].err = "nil"
        /\ \E k \in 1..Len(hist.runs[e].executed) :
              LET task == exec[e].tasks[hist.runs[e].executed[k]]
              IN  /\ task.Action = "DeleteEmptyFolder"
                  /\ hist.runs[e].outcomes[k].err = ErrNotEmptyFolder
        /\ Join(FolderB, <<".", "z">>) \in scanned
        /\ FolderB \notin fs.dirs

\* the goroutine of run e is between the check of its context and the end of
\* the task it picked
ExecutingTask(e) == e \in DOMAIN exec /\ exec[e].pc = "task"

\* C26: no two runs of Execute are executing a task at the same time
C26_OneRunExecutesTasks ==
    \A e1 \in DOMAIN exec, e2 \in DOMAIN exec :
        (ExecutingTask(e1) /\ ExecutingTask(e2)) => e1 = e2

\* the files directly in folder A that have the content of a file directly in B
SharedWith(st, A, B) ==
    {f \in GetFiles(st.folders, A) : \E h \in GetFiles(st.folders, B) : h.Hash = f.Hash}

\* C27: after "calculate file similarity" and before the counts are applied to
\* the parent folders, for every two files of a matched group that lie in
\* different folders A and B there is a pair of A and B whose A side counts
\* the files directly in A that have the content of a file directly in B,
\* each once, and whose B side counts likewise
C27_DirectPairsCountSharedFiles ==
    \A order \in Perms(GetMatchedFiles(storage)) :
        LET direct == DirectPairs(storage, order)
        IN  \A n \in 1..Len(order) : \A i, j \in 1..Len(order[n].Files) :
              LET A == Dir(order[n].Files[i].Path)
                  B == Dir(order[n].Files[j].Path)
              IN  A # B =>
                    \E k \in DOMAIN direct :
                        /\ {direct[k][1].Path, direct[k][2].Path} = {A, B}
                        /\ SideOf(direct[k], A).DuplicateFileCount
                               = Cardinality(SharedWith(storage, A, B))
                        /\ SideOf(direct[k], B).DuplicateFileCount
                               = Cardinality(SharedWith(storage, B, A))

\* the pairs the merge of the two hash-ordered lists makes: for every content,
\* as many as the side with fewer files of that content holds
RECURSIVE MatchedCount(_, _, _)
MatchedCount(files1, files2, hashes) ==
    IF hashes = {} THEN 0
    ELSE LET h == CHOOSE h \in hashes : TRUE
             n1 == Cardinality({f \in files1 : f.Hash = h})
             n2 == Cardinality({f \in files2 : f.Hash = h})
         IN  (IF n1 < n2 THEN n1 ELSE n2) + MatchedCount(files1, files2, hashes \ {h})

\* a two-sided row and the two-sided rows below it, each holding action
TwoSidedRows(row, action) ==
    {[r EXCEPT !.Action = action] :
        r \in {r \in {row} \cup NestedRows(row) : r.MatchType = "MatchBothSide"}}

\* what a task is about: its file, or its folder
TaskPath(task) == IF task.File # NilFile THEN task.File.Path ELSE task.Folder

\* tasks is: tasks about what lies inside the sub-folders of the row; one
\* Delete per matched pair, of the source-side file; for every other file of
\* the source side a Delete flagged NotDuplicate or a Move into the other
\* folder; the one DeleteEmptyFolder of the source-side folder
RowTasksInOrder(fo, row, tasks) ==
    LET side == IF row.Action \in {"ActionDeleteRight", "ActionMoveToLeft"} THEN 2 ELSE 1
        source == <<row.Folder1, row.Folder2>>[side]
        other == <<row.Folder1, row.Folder2>>[3 - side]
        files == GetFiles(fo, source)
        matched == MatchedCount(files, GetFiles(fo, other),
                                {f.Hash : f \in files})
        last == Len(tasks)
        first == last - Cardinality(files)
        moving == row.Action \in {"ActionMoveToRight", "ActionMoveToLeft"}
    IN  /\ first >= 1
        /\ tasks[last] = FileActionTask("DeleteEmptyFolder", NilFile, source,
                                        NilPath, Empty, FALSE)
        /\ \A k \in 1..(last - 1) :
               ~(tasks[k].Action = "DeleteEmptyFolder" /\ tasks[k].Folder = source)
        /\ \A k \in 1..(first - 1) :
               \E i \in 1..Len(row.FolderPairs) :
                   \/ IsAncestorOrSelf(row.FolderPairs[i].Folder1, TaskPath(tasks[k]))
                   \/ IsAncestorOrSelf(row.FolderPairs[i].Folder2, TaskPath(tasks[k]))
        /\ {tasks[k].File : k \in first..(last - 1)} = files
        /\ \A k \in first..(first + matched - 1) :
               /\ tasks[k] = FileActionTask("Delete", tasks[k].File, NilPath, NilPath,
                                            Empty, FALSE)
               /\ \E h \in GetFiles(fo, other) : h.Hash = tasks[k].File.Hash
        /\ \A k \in (first + matched)..(last - 1) :
               tasks[k] = IF moving
                          THEN FileActionTask("Move", tasks[k].File, NilPath, other,
                                              Empty, FALSE)
                          ELSE FileActionTask("Delete", tasks[k].File, NilPath, NilPath,
                                              Empty, TRUE)

\* C28: the tasks generated for a two-sided folder row with an action, and for
\* every two-sided row below it, are in this order: the tasks of its sub-folder
\* rows, one Delete per matched pair (the right file for DeleteRight and
\* MoveToLeft, the left file for DeleteLeft and MoveToRight), for every other
\* file of the source side a Delete flagged NotDuplicate or a Move into the
\* other folder, and last the one DeleteEmptyFolder of the source-side folder
C28_FolderRowTaskOrder ==
    (mainPc = "ui" /\ ui.folder1 # NilPath) =>
        \A i \in 1..Len(ui.folderPairs) :
            LET top == ui.folderPairs[i]
            IN  (top.MatchType = "MatchBothSide" /\ top.Action # "ActionNone") =>
                  \A row \in TwoSidedRows(top, top.Action) :
                      \A tasks \in MergeFolderPairGetActionTask(storage.folders, row,
                                                                ui.folder1, ui.folder2) :
                          RowTasksInOrder(storage.folders, row, tasks)

\* a two-sided folder row with a move action whose folders hold a matched
\* pair and a file on the source side only
C28_Witness ==
    /\ mainPc = "ui"
    /\ \E i \in 1..Len(ui.folderPairs) :
          LET row == ui.folderPairs[i]
          IN  /\ row.MatchType = "MatchBothSide"
              /\ row.Action = "ActionMoveToRight"
              /\ \E p \in SeqRange(row.FilePairs) : p.File1 # NilFile /\ p.File2 # NilFile
              /\ \E p \in SeqRange(row.FilePairs) : p.File1 # NilFile /\ p.File2 = NilFile

\* every row below row, with the row it is a sub-row of
RECURSIVE ParentedRows(_)
ParentedRows(row) ==
    UNION {{<<row, row.FolderPairs[i]>>} \cup ParentedRows(row.FolderPairs[i]) :
              i \in 1..Len(row.FolderPairs)}

\* the folder of a one-sided row
OneSidedFolder(row) == IF row.MatchType = "MatchOnlyLeft" THEN row.Folder1 ELSE row.Folder2

\* the kind, folder and target of the tasks a one-sided row is to yield for an
\* action, left and right being the folders of the pair that encloses it
OneSidedExpected(row, action, left, right) ==
    CASE row.MatchType = "MatchOnlyLeft" /\ action = "ActionDeleteLeft" ->
            {<<"DeleteFolder", row.Folder1, NilPath>>}
      [] row.MatchType = "MatchOnlyLeft" /\ action = "ActionMoveToRight" ->
            {<<"MoveFolder", row.Folder1, right>>}
      [] row.MatchType = "MatchOnlyRight" /\ action = "ActionDeleteRight" ->
            {<<"DeleteFolder", row.Folder2, NilPath>>}
      [] row.MatchType = "MatchOnlyRight" /\ action = "ActionMoveToLeft" ->
            {<<"MoveFolder", row.Folder2, left>>}
      [] OTHER -> {}

\* the tasks of the list about the folder or what lies in it are one task of
\* an expected kind, folder and target, or none when nothing is expected
OneTaskAbout(tasks, folder, expected) ==
    LET about == {k \in 1..Len(tasks) : IsAncestorOrSelf(folder, TaskPath(tasks[k]))}
    IN  /\ Cardinality(about) = Cardinality(expected)
        /\ \A k \in about :
               <<tasks[k].Action, tasks[k].Folder, tasks[k].TargetFolder>> \in expected

\* C29: a one-sided folder row yields exactly one task: DeleteFolder of its
\* folder for DeleteLeft on a left-only row or DeleteRight on a right-only
\* row, MoveFolder of its folder for MoveToRight on a left-only row or
\* MoveToLeft on a right-only row, into the opposite folder of the pair that
\* encloses it: the compared folder for a row of the list, the folder of the
\* row it is a sub-row of for a nested row
C29_OneSidedFolderRowTask ==
    (mainPc = "ui" /\ ui.folder1 # NilPath) =>
        \A i \in 1..Len(ui.folderPairs) :
            LET top == ui.folderPairs[i]
                generated == MergeFolderPairGetActionTask(storage.folders, top,
                                                          ui.folder1, ui.folder2)
            IN  IF top.MatchType # "MatchBothSide"
                THEN \A tasks \in generated :
                        /\ Len(tasks) = (IF top.Action = "ActionNone" THEN 0 ELSE 1)
                        /\ OneTaskAbout(tasks, OneSidedFolder(top),
                               OneSidedExpected(top, top.Action, ui.folder1, ui.folder2))
                ELSE top.Action # "ActionNone" =>
                        \A tasks \in generated : \A pr \in ParentedRows(top) :
                            pr[2].MatchType # "MatchBothSide" =>
                                OneTaskAbout(tasks, OneSidedFolder(pr[2]),
                                    OneSidedExpected(pr[2], top.Action,
                                                     pr[1].Folder1, pr[1].Folder2))

\* a folder row with a move action has a one-sided row below it, so that the
\* folder it is moved into is not a compared folder
C29_Witness ==
    /\ mainPc = "ui"
    /\ \E i \in 1..Len(ui.folderPairs) :
          LET top == ui.folderPairs[i]
          IN  /\ top.MatchType = "MatchBothSide"
              /\ top.Action = "ActionMoveToRight"
              /\ top.Folder2 # ui.folder2
              /\ \E sub \in SeqRange(top.FolderPairs) : sub.MatchType = "MatchOnlyLeft"

HasAction(row) == row.Action # "ActionNone"

\* the folder rows with an action a task can come from: those with a folder
\* that holds the task's path
FolderRowOf(task) ==
    {i \in 1..Len(ui.folderPairs) :
        /\ HasAction(ui.folderPairs[i])
        /\ \/ IsAncestorOrSelf(ui.folderPairs[i].Folder1, TaskPath(task))
           \/ IsAncestorOrSelf(ui.folderPairs[i].Folder2, TaskPath(task))}

\* C30: the plan made on Apply is the tasks of the file rows that have an
\* action, in row order, then the tasks of the folder rows that have an
\* action, in row order, then DeleteEmptyFolder of the first compared folder
\* and DeleteEmptyFolder of the second, which are its last two tasks also
\* when no row has an action
C30_PlanEndsWithCleanup ==
    (mainPc = "ui" /\ ui.focus = "DialogFocus") =>
        LET plan == ui.pendingActions
            fileRows == SelectSeq(ui.filePairs, HasAction)
            files == Len(fileRows)
            last == Len(plan)
        IN  /\ last >= files + 2
            /\ plan[last - 1] = FileActionTask("DeleteEmptyFolder", NilFile, ui.folder1,
                                               NilPath, Empty, FALSE)
            /\ plan[last] = FileActionTask("DeleteEmptyFolder", NilFile, ui.folder2,
                                           NilPath, Empty, FALSE)
            /\ \A k \in 1..files :
                   /\ plan[k].Action \in {"Delete", "Move"}
                   /\ plan[k].File # NilFile
                   /\ plan[k].File \in {fileRows[k].File1, fileRows[k].File2}
            /\ \A k \in (files + 1)..(last - 2) : FolderRowOf(plan[k]) # {}
            /\ \A k, l \in (files + 1)..(last - 2) :
                   k < l => \A i \in FolderRowOf(plan[k]), j \in FolderRowOf(plan[l]) : i <= j
            /\ \A i \in 1..Len(ui.folderPairs) :
                   HasAction(ui.folderPairs[i]) =>
                       \E k \in (files + 1)..(last - 2) : i \in FolderRowOf(plan[k])
            /\ (\A i \in 1..Len(ui.folderPairs) : ~HasAction(ui.folderPairs[i]))
                   => last = files + 2

\* Apply was pressed with an action on a file row and on a folder row
C30_Witness ==
    /\ mainPc = "ui"
    /\ ui.focus = "DialogFocus"
    /\ \E i \in 1..Len(ui.filePairs) : HasAction(ui.filePairs[i])
    /\ \E i \in 1..Len(ui.folderPairs) : HasAction(ui.folderPairs[i])
    /\ \E i \in 1..Len(ui.filePairs) : ~HasAction(ui.filePairs[i])

\* the result c of child_match on the folders path1 and path2 splits their
\* direct sub-folders, and its matched pairs are pairs of the index
ChildMatchPartitions(fo, s, c, path1, path2) ==
    LET left == {c.matchedPairs[k][1] : k \in 1..Len(c.matchedPairs)}
        right == {c.matchedPairs[k][2] : k \in 1..Len(c.matchedPairs)}
    IN  /\ Cardinality(left) = Len(c.matchedPairs)
        /\ Cardinality(right) = Len(c.matchedPairs)
        /\ Cardinality(SeqRange(c.folder1Only)) = Len(c.folder1Only)
        /\ Cardinality(SeqRange(c.folder2Only)) = Len(c.folder2Only)
        /\ left \cup SeqRange(c.folder1Only) = GetFolders(fo, path1)
        /\ left \cap SeqRange(c.folder1Only) = {}
        /\ right \cup SeqRange(c.folder2Only) = GetFolders(fo, path2)
        /\ right \cap SeqRange(c.folder2Only) = {}
        /\ \A k \in 1..Len(c.matchedPairs) :
               LET key == folderPairKey(c.matchedPairs[k][1], c.matchedPairs[k][2])
               IN  /\ key \in DOMAIN s.similarityFolderPairs
                   /\ {s.similarityFolderPairs[key][1].Path,
                       s.similarityFolderPairs[key][2].Path}
                         = {c.matchedPairs[k][1], c.matchedPairs[k][2]}

\* the folder rows made for the folders path1 and path2 are the two-sided rows
\* of some child_match result, made in turn for their folders, then its
\* left-only and right-only sub-folders with the other side empty and no rows
RECURSIVE RowsFollowChildMatch(_, _, _, _, _)
RowsFollowChildMatch(fo, s, rows, path1, path2) ==
    \E c \in GetChildFolderSimilarityMatch(fo, s, path1, path2) :
        LET matched == Len(c.matchedPairs)
            lefts == Len(c.folder1Only)
        IN  /\ Len(rows) = matched + lefts + Len(c.folder2Only)
            /\ \A k \in 1..matched :
                   /\ rows[k].MatchType = "MatchBothSide"
                   /\ <<rows[k].Folder1, rows[k].Folder2>> = c.matchedPairs[k]
                   /\ RowsFollowChildMatch(fo, s, rows[k].FolderPairs,
                                           rows[k].Folder1, rows[k].Folder2)
            /\ \A k \in 1..lefts :
                   LET row == rows[matched + k]
                   IN  /\ row.MatchType = "MatchOnlyLeft"
                       /\ <<row.Folder1, row.Folder2>> = <<c.folder1Only[k], NilPath>>
                       /\ <<row.FilePairs, row.FolderPairs>> = <<<< >>, << >>>>
            /\ \A k \in 1..Len(c.folder2Only) :
                   LET row == rows[matched + lefts + k]
                   IN  /\ row.MatchType = "MatchOnlyRight"
                       /\ <<row.Folder1, row.Folder2>> = <<NilPath, c.folder2Only[k]>>
                       /\ <<row.FilePairs, row.FolderPairs>> = <<<< >>, << >>>>

\* C31: every result of child_match on the compared folders, and on the folders
\* of every two-sided row below them, puts each direct sub-folder of the first
\* folder either on the left of exactly one matched pair or in the left-only
\* list, each direct sub-folder of the second folder either on the right of
\* exactly one matched pair or in the right-only list, and every matched pair
\* is a pair of the index; the folder rows of the merge pair are the matched
\* pairs, recursed into, and the leftovers as one-sided rows
C31_ChildMatchPartitions ==
    (mainPc = "ui" /\ ui.folder1 # NilPath) =>
        /\ \A pair \in {<<ui.folder1, ui.folder2>>}
                      \cup {<<r.Folder1, r.Folder2>> :
                               r \in {r \in UNION {{ui.folderPairs[i]}
                                                     \cup NestedRows(ui.folderPairs[i]) :
                                                   i \in 1..Len(ui.folderPairs)} :
                                         r.MatchType = "MatchBothSide"}} :
               \A c \in GetChildFolderSimilarityMatch(storage.folders, sim,
                                                      pair[1], pair[2]) :
                   ChildMatchPartitions(storage.folders, sim, c, pair[1], pair[2])
        /\ RowsFollowChildMatch(storage.folders, sim, ui.folderPairs,
                                ui.folder1, ui.folder2)

\* the compared folders have a sub-folder that is matched and one that is left
\* over because the sub-folder it has the content of is already matched
C31_Witness ==
    /\ mainPc = "ui"
    /\ ui.folder1 # NilPath
    /\ \E i, j \in 1..Len(ui.folderPairs) :
          /\ ui.folderPairs[i].MatchType = "MatchBothSide"
          /\ ui.folderPairs[j].MatchType # "MatchBothSide"
          /\ \E key \in DOMAIN sim.similarityFolderPairs :
                {sim.similarityFolderPairs[key][1].Path,
                 sim.similarityFolderPairs[key][2].Path}
                  = {OneSidedFolder(ui.folderPairs[j]),
                     IF ui.folderPairs[j].MatchType = "MatchOnlyLeft"
                     THEN ui.folderPairs[i].Folder2 ELSE ui.folderPairs[i].Folder1}

\* both calls have returned
RaceOver == mainPc = "race" /\ exec.writer.pc = "done" /\ exec.reader.stack = << >>

C33_ScanStopsAtCancel ==
    /\ [](mainPc \in {"walk", "returned"} => hist.late <= 1)
    /\ [](mainPc = "returned" /\ exec.ctxDone /\ DOMAIN fs.files \ scanned # {}
            => hist.err[Len(hist.err)] = "context canceled")
    /\ [][/\ ((/\ mainPc = "walk" /\ exec.ctxDone /\ exec.visiting = NilPath
                 /\ ((DOMAIN fs.files) \cup fs.dirs) \ scanned # {})
                => (/\ storage' = storage
                    /\ scanned' = scanned
                    /\ mainPc' = "returned"
                    /\ hist'.err[Len(hist'.err)] = "context canceled"))
           /\ ((mainPc = "walk" /\ exec.ctxDone /\ exec.visiting # NilPath)
                => (mainPc' = "walk" /\ exec'.visiting = NilPath /\ hist'.late = 1))
           /\ (mainPc = "returned" => storage' = storage)]_vars

\* the Context was cancelled while the callback was working on a file: that
\* file was added, the scan returned and files of the tree were never visited
C33_Witness ==
    /\ mainPc = "returned"
    /\ exec.ctxDone
    /\ hist.late = 1
    /\ Cardinality(DOMAIN fs.files \ scanned) >= 2
    /\ StoredFiles(storage) # {}

----------------------------------------------------------------------------
(* the similarity index as a function of Storage *)

\* what an index says apart from the order of its maps: for every pair key
\* the paths of the two sides with their duplicate counts
IndexCounts(s) ==
    [key \in DOMAIN s.similarityFolderPairs |->
        {<<s.similarityFolderPairs[key][i].Path,
           s.similarityFolderPairs[key][i].DuplicateFileCount>> : i \in {1, 2}}]

\* C34: the index computed by CalculateSimilarity is a function of Storage
\* only: whatever the order in which the matched groups and the direct-parent
\* pairs are ranged over, and also on a second call on the unchanged Storage,
\* the pair keys and the duplicate counts of both sides are the ones of the
\* index in place.
C34_IndexDeterminedByStorage ==
    (mainPc = "ui" /\ hist.op = "CalculateSimilarity")
        => \A r \in CalculateSimilarity(storage) : IndexCounts(r.sim) = IndexCounts(sim)

----------------------------------------------------------------------------
(* what a move plan leaves on the filesystem *)

\* the last run executed all the plan that SetAllActions(action) gives, and
\* every Delete and Move of it returned no error
MovePlanDone(action) ==
    /\ Len(exec) > 0
    /\ exec[Len(exec)].done
    /\ IsPlanOf(hist.runs[Len(exec)], action)
    /\ \A k \in 1..Len(hist.runs[Len(exec)].outcomes) :
          exec[Len(exec)].tasks[k].Action \in {"Delete", "Move"}
              => hist.runs[Len(exec)].outcomes[k].err = "nil"

\* the fingerprints of the files directly in folder p, among stored files and
\* on the filesystem
DirectHashes(files, p) == {f.Hash : f \in {g \in files : Dir(g.Path) = p}}
FsDirectHashes(tree, p) ==
    {tree.files[q].Hash : q \in {q \in DOMAIN tree.files : Dir(q) = p}}

\* C35: no content is lost by a move plan: after the MoveToRight (MoveToLeft)
\* plan of a folder pair has executed with every task succeeding, every
\* fingerprint that was among the direct files of either folder before is
\* among the files of the destination folder on the filesystem.
C35_MoveKeepsEveryFingerprint ==
    LET r == hist.runs[Len(exec)]
        all == DirectHashes(r.before, r.folder1) \cup DirectHashes(r.before, r.folder2)
    IN  /\ MovePlanDone("ActionMoveToRight") => all \subseteq FsDirectHashes(fs, r.folder2)
        /\ MovePlanDone("ActionMoveToLeft") => all \subseteq FsDirectHashes(fs, r.folder1)

\* every file of the scanned tree is in Storage: none is hidden
TreeMatchesStorage == \A q \in scanned : Base(q)[1] # "."

\* C36: every plan the planner produces is executable: on a filesystem that
\* matches Storage, without cancellation, Execute runs all the tasks of the
\* plan and returns no error.
C36_PlanRunsWithoutError ==
    \A e \in DOMAIN exec :
        (TreeMatchesStorage /\ exec[e].pc = "returned" /\ ~exec[e].ctxDone)
            => (/\ exec[e].result = "nil"
                /\ Len(hist.runs[e].executed) = Len(exec[e].tasks))

----------------------------------------------------------------------------
(* the NotDuplicate flag of the Delete tasks of a plan *)

\* the folders compared with the folder of file by a two-sided folder row of
\* the list, at any depth
OppositeFolders(file) ==
    LET rows == UNION {{ui.folderPairs[i]} \cup NestedRows(ui.folderPairs[i]) :
                          i \in 1..Len(ui.folderPairs)}
        twoSided == {r \in rows : r.MatchType = "MatchBothSide"}
    IN  {r.Folder2 : r \in {r \in twoSided : r.Folder1 = Dir(file.Path)}}
            \cup {r.Folder1 : r \in {r \in twoSided : r.Folder2 = Dir(file.Path)}}

\* C37: in the plan shown for confirmation, a Delete task is flagged
\* NotDuplicate only for a file whose fingerprint does not occur among the
\* direct files of the opposite folder of its pair.
C37_NotDuplicateHasNoCopyOpposite ==
    (mainPc = "ui" /\ ui.focus = "DialogFocus") =>
        \A k \in 1..Len(ui.pendingActions) :
            LET task == ui.pendingActions[k]
            IN  (task.Action = "Delete" /\ task.NotDuplicate) =>
                    \A other \in OppositeFolders(task.File) :
                        \A g \in GetFiles(storage.folders, other) : g.Hash # task.File.Hash

----------------------------------------------------------------------------
(* what the progress dialog reports about a run *)

\* the UI holds a ProgressCompleteMsg, or has handled one and refreshed
CompletionReported ==
    /\ ui.currentExecutor \in DOMAIN exec
    /\ InboxAt("ProgressCompleteMsg") # {} \/ hist.op = "Refresh"

\* C38: the UI reports a successful completion (ProgressCompleteMsg with
\* Success = true, then the refresh) only for a run in which Execute returned
\* no error.
C38_CompletionOnlyAfterSuccess ==
    (CompletionReported /\ exec[ui.currentExecutor].pc = "returned")
        => exec[ui.currentExecutor].result = "nil"

----------------------------------------------------------------------------
(* the confirmation dialog *)

\* C39: no filesystem task is executed unless the user confirmed the pending
\* plan with OK: an executor is created only by closing the confirmation
\* dialog with "OK" and runs the plan the dialog was shown for; only a task
\* of an executor changes the filesystem or the stored files; and closing the
\* dialog for the tree (no progress message being handled) discards the
\* pending actions, touches neither the filesystem nor Storage, and starts
\* nothing.
C39_NothingRunsWithoutOK ==
    [][/\ Len(exec') > Len(exec)
            => (/\ ui.focus = "DialogFocus"
                /\ Len(exec') = Len(exec) + 1
                /\ hist'.runs[Len(exec')].selected = "OK"
                /\ exec'[Len(exec')].tasks = ui.pendingActions
                /\ fs' = fs /\ storage' = storage)
       /\ (mainPc = "ui" /\ (fs' # fs \/ StoredFiles(storage') # StoredFiles(storage)))
            => \E e \in DOMAIN exec : TaskStep(e) /\ exec[e].pc = "task"
       /\ (ui.focus = "DialogFocus" /\ ui'.focus = "TreeFocus" /\ ui'.inbox = ui.inbox)
            => (/\ ui'.pendingActions = << >>
                /\ exec' = exec /\ fs' = fs /\ storage' = storage)]_vars

\* the dialog was closed with another button than OK on a plan that had
\* tasks: no executor exists and the tree is as it was scanned
C39_Witness ==
    /\ mainPc = "ui"
    /\ hist.op = "CloseMsg"
    /\ ui.focus = "TreeFocus"
    /\ ui.folder1 # NilPath
    /\ \E i \in 1..Len(ui.filePairs) : ui.filePairs[i].Action # "ActionNone"
    /\ ui.pendingActions = << >>
    /\ exec = << >>
    /\ DOMAIN fs.files = scanned

----------------------------------------------------------------------------
(* a task whose filesystem operation fails *)

\* the run e has just executed a Delete or Move of a file whose remove or
\* rename failed: the task returned an error and the filesystem is as before
FileTaskFailed(e) ==
    /\ TaskStep(e)
    /\ exec[e].tasks[exec[e].i].Action \in {"Delete", "Move"}
    /\ hist'.runs[e].outcomes[Len(hist'.runs[e].outcomes)].err # "nil"
    /\ fs' = fs

\* C40: when the remove of a Delete(file) task or the rename of a Move(file)
\* task fails, the task leaves Storage unchanged (the file in its folder's
\* map, the folder counts, the matched groups) and the error is what the task
\* returns to Execute.
C40_FailedFileTaskKeepsStorage ==
    [][\A e \in DOMAIN hist.runs :
          FileTaskFailed(e) =>
              /\ storage' = storage
              /\ exec'[e].err = hist'.runs[e].outcomes[Len(hist'.runs[e].outcomes)].err
              /\ exec'[e].err \in {"remove: no such file or directory",
                                   "rename: no such file or directory",
                                   "rename: no such directory or is a directory"}]_vars

\* a Move whose rename failed has just been executed, the file it was to move
\* being gone from the filesystem and still in Storage
C40_Witness ==
    \E e \in DOMAIN exec :
        /\ exec[e].pc = "send"
        /\ exec[e].tasks[exec[e].i].Action = "Move"
        /\ exec[e].err = "rename: no such file or directory"
        /\ exec[e].tasks[exec[e].i].File.Path \notin DOMAIN fs.files
        /\ exec[e].tasks[exec[e].i].File \in StoredFiles(storage)

====
